---- MODULE Spec2Model ----
(***************************************************************************)
(* Token / session / authorization core of the contacts REST backend:     *)
(* the auth routes (signup, login, refresh_token, confirmed_email,        *)
(* request_email, reset_password), the Token and Hash services, the       *)
(* user repository, the cached current-user resolver, the role gate and   *)
(* the contact routes with their repository.                              *)
(***************************************************************************)
EXTENDS Integers, Sequences, FiniteSets, Bags, TLC

VARIABLES
    SECRET_KEY_A,   \* Token.SECRET_KEY_A and CurrentUser.SECRET_KEY_A
    SECRET_KEY_R,   \* Token.SECRET_KEY_R
    clock,          \* the instants (whole seconds) the run has seen; the last is now
    users,          \* the users table: email -> row
    red,            \* the redis cache: email -> [user, expires]
    contacts,       \* the contacts table: the rows in the order of their ids
    links,          \* the users_contacts table: a bag of (user_id, contact_id) rows
    held,           \* the token a caller of the Token service holds, and its override
    tasks,          \* the requests in flight, each at a step of its handler
    last            \* the last request handled and its response

vars == <<SECRET_KEY_A, SECRET_KEY_R, clock, users, red, contacts, links, held, tasks, last>>

----------------------------------------------------------------------------
\* Bounds of the model.

\* number of clock advances
MaxTicks == 1

Emails == {"a@x.com", "b@x.com"}
Passwords == {"123456", "654321"}
Secrets == {"secret", "secret_r"}

\* number of rows the contacts table is given
MaxContacts == 2

\* the values of expires_delta, in seconds, besides None
Deltas == {-1, 0, 1, 60}

FirstNames == {"Harley"}
ContactEmails == {"harley@example.com", "jessica@example.com"}
PhoneNumbers == {"+380501234567", "+380507654321"}
\* what a search is made with
Parameters == {"harley", "jessica", "quinn"}

----------------------------------------------------------------------------
\* Program constants.

ACCESS_EXPIRE == 900
REFRESH_EXPIRE == 604800
EMAIL_EXPIRE == 86400
CACHE_TTL == 900

HTTP_200_OK == 200
HTTP_201_CREATED == 201
HTTP_204_NO_CONTENT == 204
HTTP_400_BAD_REQUEST == 400
HTTP_401_UNAUTHORIZED == 401
HTTP_403_FORBIDDEN == 403
HTTP_404_NOT_FOUND == 404
HTTP_409_CONFLICT == 409
HTTP_422_UNPROCESSABLE_ENTITY == 422
HTTP_429_TOO_MANY_REQUESTS == 429
HTTP_500_INTERNAL_SERVER_ERROR == 500

\* conf/messages.py
INVALID_EMAIL == "Invalid email"
EMAIL_NOT_CONFIRMED == "Email not confirmed"
INVALID_PASSWORD == "Invalid password"

\* the increments of the clock: one second, just past the lifetime of an
\* access token (and of a cache entry), just past that of a refresh token
TickSteps == {1, ACCESS_EXPIRE + 1, REFRESH_EXPIRE + 1}

\* Optional values: None is <<>>, a value v is <<v>>.
None == <<>>
Some(v) == <<v>>

\* datetime.utcnow()
now == clock[Len(clock)]

----------------------------------------------------------------------------
\* Hash

\* passlib bcrypt: a one-way, salted hash. The salt is left out: no two
\* salted hashes collide, so the unique constraint on users.password never
\* fires, and verification depends on the hashed password alone.
get_password_hash(password) == [bcrypt |-> password]

verify_password(plain_password, hashed_password) ==
    hashed_password.bcrypt = plain_password

----------------------------------------------------------------------------
\* Token

\* jwt.encode: the token is determined by its claims and the signing key.
jwt_encode(to_encode, key) ==
    [sub |-> to_encode.sub, iat |-> to_encode.iat, exp |-> to_encode.exp,
     scope |-> to_encode.scope, key |-> key]

\* a test of expires_delta that takes only a positive number
Truthy_positive(expires_delta) == expires_delta # None /\ expires_delta[1] > 0

\* `if expires_delta:` is false for None and for 0.
Truthy(expires_delta) == expires_delta # None /\ expires_delta[1] # 0

\* utcnow is the value of datetime.utcnow() during the call.
create_access_token(sub, expires_delta, utcnow) ==
    LET expire == IF Truthy(expires_delta) THEN utcnow + expires_delta[1]
                  ELSE utcnow + ACCESS_EXPIRE
    IN jwt_encode([sub |-> sub, iat |-> utcnow, exp |-> expire,
                   scope |-> "access_token"], SECRET_KEY_A)

\* create_refresh_token signing with a key of its own
create_refresh_token_own_key(sub, expires_delta, utcnow) ==
    LET expire == IF Truthy(expires_delta) THEN utcnow + expires_delta[1]
                  ELSE utcnow + REFRESH_EXPIRE
    IN jwt_encode([sub |-> sub, iat |-> utcnow, exp |-> expire,
                   scope |-> "refresh_token"], "own")

\* create_refresh_token without the issue time among the claims
create_refresh_token_no_iat(sub, expires_delta, utcnow) ==
    jwt_encode([sub |-> sub, iat |-> 0, exp |-> REFRESH_EXPIRE,
                scope |-> "refresh_token"], SECRET_KEY_R)

create_refresh_token(sub, expires_delta, utcnow) ==
    LET expire == IF Truthy(expires_delta) THEN utcnow + expires_delta[1]
                  ELSE utcnow + REFRESH_EXPIRE
    IN jwt_encode([sub |-> sub, iat |-> utcnow, exp |-> expire,
                   scope |-> "refresh_token"], SECRET_KEY_R)

create_email_token(sub, utcnow) ==
    jwt_encode([sub |-> sub, iat |-> utcnow, exp |-> utcnow + EMAIL_EXPIRE,
                scope |-> "email_token"], SECRET_KEY_A)

\* jwt.decode: the signature is checked first, then the exp claim
\* (rejected when exp < now); both failures are a JWTError.
jwt_decode(token, key) ==
    IF token.key # key THEN [ok |-> FALSE, err |-> "signature"]
    ELSE IF token.exp < now THEN [ok |-> FALSE, err |-> "expired"]
    ELSE [ok |-> TRUE, err |-> ""]

Fail(status, detail) == [ok |-> FALSE, status |-> status, detail |-> detail, email |-> ""]
Subject(email) == [ok |-> TRUE, status |-> HTTP_200_OK, detail |-> "", email |-> email]

\* decode_refresh_token without the scope check
decode_refresh_any_scope(refresh_token) ==
    LET payload == jwt_decode(refresh_token, SECRET_KEY_R)
    IN IF ~payload.ok
       THEN Fail(HTTP_401_UNAUTHORIZED, "Could not validate credentials")
       ELSE Subject(refresh_token.sub)

\* decode_refresh_token looking at the scope before the signature
decode_refresh_scope_first(refresh_token) ==
    LET payload == jwt_decode(refresh_token, SECRET_KEY_R)
    IN IF refresh_token.scope # "refresh_token"
       THEN Fail(HTTP_401_UNAUTHORIZED, "Invalid scope for token")
       ELSE IF ~payload.ok
       THEN Fail(HTTP_401_UNAUTHORIZED, "Could not validate credentials")
       ELSE Subject(refresh_token.sub)

decode_refresh_token(refresh_token) ==
    LET payload == jwt_decode(refresh_token, SECRET_KEY_R)
    IN IF ~payload.ok
       THEN Fail(HTTP_401_UNAUTHORIZED, "Could not validate credentials")
       ELSE IF refresh_token.scope = "refresh_token"
       THEN Subject(refresh_token.sub)
       ELSE Fail(HTTP_401_UNAUTHORIZED, "Invalid scope for token")

\* get_email_from_token answering a JWTError as the other validations do
get_email_jwt_error_401(token) ==
    LET payload == jwt_decode(token, SECRET_KEY_A)
    IN IF ~payload.ok
       THEN Fail(HTTP_401_UNAUTHORIZED, "Invalid token for email verification")
       ELSE IF token.scope = "email_token"
       THEN Subject(token.sub)
       ELSE Fail(HTTP_401_UNAUTHORIZED, "Invalid scope for token")

get_email_from_token(token) ==
    LET payload == jwt_decode(token, SECRET_KEY_A)
    IN IF ~payload.ok
       THEN Fail(HTTP_422_UNPROCESSABLE_ENTITY, "Invalid token for email verification")
       ELSE IF token.scope = "email_token"
       THEN Subject(token.sub)
       ELSE Fail(HTTP_401_UNAUTHORIZED, "Invalid scope for token")

\* the resolver's validation naming the scope as the cause
decode_access_leaks_scope(token) ==
    LET payload == jwt_decode(token, SECRET_KEY_A)
    IN IF ~payload.ok
       THEN Fail(HTTP_401_UNAUTHORIZED, "Could not validate credentials")
       ELSE IF token.scope = "access_token"
       THEN IF token.sub = ""
            THEN Fail(HTTP_401_UNAUTHORIZED, "Could not validate credentials")
            ELSE Subject(token.sub)
       ELSE Fail(HTTP_401_UNAUTHORIZED, "Invalid scope for token")

\* CurrentUser.get_current_user, the token part (the try block).
decode_access_token(token) ==
    LET payload == jwt_decode(token, SECRET_KEY_A)
    IN IF ~payload.ok
       THEN Fail(HTTP_401_UNAUTHORIZED, "Could not validate credentials")
       ELSE IF token.scope = "access_token"
       THEN IF token.sub = ""
            THEN Fail(HTTP_401_UNAUTHORIZED, "Could not validate credentials")
            ELSE Subject(token.sub)
       ELSE Fail(HTTP_401_UNAUTHORIZED, "Could not validate credentials")

----------------------------------------------------------------------------
\* repository/users.py (us is the users table the session reads and writes:
\* the rows in the order of their ids)

Registered(us) == {us[i].email : i \in 1..Len(us)}

\* db.query(User).filter_by(email=email).first()
get_user_by_email(us, email) ==
    LET found == {i \in 1..Len(us) : us[i].email = email}
    IN IF found = {} THEN None
       ELSE Some(us[CHOOSE i \in found : \A j \in found : i <= j])

\* db.add(User(**body.model_dump(), avatar=avatar)); db.commit(). The column
\* defaults give roles = Role.user, confirmed = False, refresh_token = NULL;
\* the commit fails with an IntegrityError when the email is not unique.
create_user(us, email, password) ==
    IF email \in Registered(us)
    THEN [ok |-> FALSE, users |-> us]
    ELSE [ok |-> TRUE,
          users |-> Append(us, [id |-> Len(us) + 1,
                                email |-> email,
                                password |-> password,
                                refresh_token |-> None,
                                roles |-> "user",
                                confirmed |-> FALSE])]

\* update_token that does not store NULL
update_token_keeps(us, user, refresh_token) ==
    IF refresh_token = None THEN us
    ELSE [us EXCEPT ![user.id].refresh_token = refresh_token]

update_token(us, user, refresh_token) ==
    [us EXCEPT ![user.id].refresh_token = refresh_token]

\* confirm_email that commits without setting the flag
confirm_email_unset(us, email) == us

confirm_email(us, email) ==
    LET user == get_user_by_email(us, email)
    IN [us EXCEPT ![user[1].id].confirmed = TRUE]

\* reset_password that also confirms the identity
reset_password_confirms(us, user, new_password) ==
    [us EXCEPT ![user.id].password = new_password, ![user.id].confirmed = TRUE]

\* reset_password that also makes the identity an admin
reset_password_promotes(us, user, new_password) ==
    [us EXCEPT ![user.id].password = new_password, ![user.id].roles = "admin"]

repository_reset_password(us, user, new_password) ==
    [us EXCEPT ![user.id].password = new_password]

----------------------------------------------------------------------------
\* routes/auth.py: each handler as a function of the request and the users
\* table, giving the response and the table the handler leaves.

Response(status, detail, us) ==
    [status |-> status, detail |-> detail, users |-> us,
     access |-> None, refresh |-> None]

\* signup without the look-up of an existing account
signup_no_exist_check(us, email, password) ==
    LET created == create_user(us, email, get_password_hash(password))
    IN IF ~created.ok
       THEN Response(HTTP_400_BAD_REQUEST, "IntegrityError", us)
       ELSE Response(HTTP_201_CREATED, "", created.users)

signup_result(us, email, password) ==
    LET exist_user == get_user_by_email(us, email)
        created == create_user(us, email, get_password_hash(password))
    IN IF exist_user # None
       THEN Response(HTTP_409_CONFLICT, "Account already exists", us)
       ELSE IF ~created.ok
       \* get_db: rollback, HTTPException(400, detail=str(error))
       THEN Response(HTTP_400_BAD_REQUEST, "IntegrityError", us)
       ELSE Response(HTTP_201_CREATED, "", created.users)

\* login checking the password before the confirmed flag
login_password_first(us, email, password) ==
    LET user == get_user_by_email(us, email)
    IN IF user = None
       THEN Response(HTTP_401_UNAUTHORIZED, INVALID_EMAIL, us)
       ELSE IF ~verify_password(password, user[1].password)
       THEN Response(HTTP_401_UNAUTHORIZED, INVALID_PASSWORD, us)
       ELSE IF ~user[1].confirmed
       THEN Response(HTTP_401_UNAUTHORIZED, EMAIL_NOT_CONFIRMED, us)
       ELSE LET access_token == create_access_token(user[1].email, None, now)
                refresh_token_ == create_refresh_token(user[1].email, None, now)
            IN [Response(HTTP_200_OK, "", update_token(us, user[1], Some(refresh_token_)))
                EXCEPT !.access = Some(access_token), !.refresh = Some(refresh_token_)]

\* login without the confirmed check
login_skips_confirmed(us, email, password) ==
    LET user == get_user_by_email(us, email)
    IN IF user = None
       THEN Response(HTTP_401_UNAUTHORIZED, INVALID_EMAIL, us)
       ELSE IF ~verify_password(password, user[1].password)
       THEN Response(HTTP_401_UNAUTHORIZED, INVALID_PASSWORD, us)
       ELSE LET access_token == create_access_token(user[1].email, None, now)
                refresh_token_ == create_refresh_token(user[1].email, None, now)
            IN [Response(HTTP_200_OK, "", update_token(us, user[1], Some(refresh_token_)))
                EXCEPT !.access = Some(access_token), !.refresh = Some(refresh_token_)]

login_result(us, email, password) ==
    LET user == get_user_by_email(us, email)
    IN IF user = None
       THEN Response(HTTP_401_UNAUTHORIZED, INVALID_EMAIL, us)
       ELSE IF ~user[1].confirmed
       THEN Response(HTTP_401_UNAUTHORIZED, EMAIL_NOT_CONFIRMED, us)
       ELSE IF ~verify_password(password, user[1].password)
       THEN Response(HTTP_401_UNAUTHORIZED, INVALID_PASSWORD, us)
       ELSE LET access_token == create_access_token(user[1].email, None, now)
                refresh_token_ == create_refresh_token(user[1].email, None, now)
            IN [Response(HTTP_200_OK, "", update_token(us, user[1], Some(refresh_token_)))
                EXCEPT !.access = Some(access_token), !.refresh = Some(refresh_token_)]

\* refresh_token refusing a mismatch without clearing the stored token
refresh_mismatch_keeps(us, token) ==
    LET decoded == decode_refresh_token(token)
        user == get_user_by_email(us, decoded.email)
    IN IF ~decoded.ok
       THEN Response(decoded.status, decoded.detail, us)
       ELSE IF user = None
       THEN Response(HTTP_500_INTERNAL_SERVER_ERROR, "Internal Server Error", us)
       ELSE IF user[1].refresh_token # Some(token)
       THEN Response(HTTP_401_UNAUTHORIZED, "Invalid refresh token", us)
       ELSE LET access_token == create_access_token(decoded.email, None, now)
                refresh_token_ == create_refresh_token(user[1].email, None, now)
            IN [Response(HTTP_200_OK, "", update_token(us, user[1], Some(refresh_token_)))
                EXCEPT !.access = Some(access_token), !.refresh = Some(refresh_token_)]

\* refresh_token returning a new pair but leaving the presented token stored
refresh_keeps_old(us, token) ==
    LET decoded == decode_refresh_token(token)
        user == get_user_by_email(us, decoded.email)
    IN IF ~decoded.ok
       THEN Response(decoded.status, decoded.detail, us)
       ELSE IF user = None
       THEN Response(HTTP_500_INTERNAL_SERVER_ERROR, "Internal Server Error", us)
       ELSE IF user[1].refresh_token # Some(token)
       THEN Response(HTTP_401_UNAUTHORIZED, "Invalid refresh token",
                     update_token(us, user[1], None))
       ELSE LET access_token == create_access_token(decoded.email, None, now)
                refresh_token_ == create_refresh_token(user[1].email, None, now)
            IN [Response(HTTP_200_OK, "", us)
                EXCEPT !.access = Some(access_token), !.refresh = Some(refresh_token_)]

\* refresh_token comparing only when a token is stored
refresh_null_matches(us, token) ==
    LET decoded == decode_refresh_token(token)
        user == get_user_by_email(us, decoded.email)
    IN IF ~decoded.ok
       THEN Response(decoded.status, decoded.detail, us)
       ELSE IF user = None
       THEN Response(HTTP_500_INTERNAL_SERVER_ERROR, "Internal Server Error", us)
       ELSE IF user[1].refresh_token # None /\ user[1].refresh_token # Some(token)
       THEN Response(HTTP_401_UNAUTHORIZED, "Invalid refresh token",
                     update_token(us, user[1], None))
       ELSE LET access_token == create_access_token(decoded.email, None, now)
                refresh_token_ == create_refresh_token(user[1].email, None, now)
            IN [Response(HTTP_200_OK, "", update_token(us, user[1], Some(refresh_token_)))
                EXCEPT !.access = Some(access_token), !.refresh = Some(refresh_token_)]

\* refresh_token giving the new refresh token a lifetime of its own
refresh_own_lifetime(us, token) ==
    LET decoded == decode_refresh_token(token)
        user == get_user_by_email(us, decoded.email)
    IN IF ~decoded.ok
       THEN Response(decoded.status, decoded.detail, us)
       ELSE IF user = None
       THEN Response(HTTP_500_INTERNAL_SERVER_ERROR, "Internal Server Error", us)
       ELSE IF user[1].refresh_token # Some(token)
       THEN Response(HTTP_401_UNAUTHORIZED, "Invalid refresh token",
                     update_token(us, user[1], None))
       ELSE LET access_token == create_access_token(decoded.email, None, now)
                refresh_token_ == create_refresh_token(user[1].email,
                                                       Some(REFRESH_EXPIRE + 1), now)
            IN [Response(HTTP_200_OK, "", update_token(us, user[1], Some(refresh_token_)))
                EXCEPT !.access = Some(access_token), !.refresh = Some(refresh_token_)]

\* refresh_token clearing the stored token of every identity on a mismatch
refresh_mismatch_clears_all(us, token) ==
    LET decoded == decode_refresh_token(token)
        user == get_user_by_email(us, decoded.email)
    IN IF ~decoded.ok
       THEN Response(decoded.status, decoded.detail, us)
       ELSE IF user = None
       THEN Response(HTTP_500_INTERNAL_SERVER_ERROR, "Internal Server Error", us)
       ELSE IF user[1].refresh_token # Some(token)
       THEN Response(HTTP_401_UNAUTHORIZED, "Invalid refresh token",
                     [i \in 1..Len(us) |-> [us[i] EXCEPT !.refresh_token = None]])
       ELSE LET access_token == create_access_token(decoded.email, None, now)
                refresh_token_ == create_refresh_token(user[1].email, None, now)
            IN [Response(HTTP_200_OK, "", update_token(us, user[1], Some(refresh_token_)))
                EXCEPT !.access = Some(access_token), !.refresh = Some(refresh_token_)]

refresh_token_result(us, token) ==
    LET decoded == decode_refresh_token(token)
        user == get_user_by_email(us, decoded.email)
    IN IF ~decoded.ok
       THEN Response(decoded.status, decoded.detail, us)
       ELSE IF user = None
       \* user.refresh_token on None: AttributeError, an unhandled exception
       THEN Response(HTTP_500_INTERNAL_SERVER_ERROR, "Internal Server Error", us)
       ELSE IF user[1].refresh_token # Some(token)
       THEN Response(HTTP_401_UNAUTHORIZED, "Invalid refresh token",
                     update_token(us, user[1], None))
       ELSE LET access_token == create_access_token(decoded.email, None, now)
                refresh_token_ == create_refresh_token(user[1].email, None, now)
            IN [Response(HTTP_200_OK, "", update_token(us, user[1], Some(refresh_token_)))
                EXCEPT !.access = Some(access_token), !.refresh = Some(refresh_token_)]

confirmed_email_result(us, token) ==
    LET decoded == get_email_from_token(token)
        user == get_user_by_email(us, decoded.email)
    IN IF ~decoded.ok
       THEN Response(decoded.status, decoded.detail, us)
       ELSE IF user = None
       THEN Response(HTTP_400_BAD_REQUEST, "Verification error", us)
       ELSE IF user[1].confirmed
       THEN Response(HTTP_200_OK, "Your email is already confirmed", us)
       ELSE Response(HTTP_200_OK, "Email confirmed", confirm_email(us, decoded.email))

\* The mail itself is the background task send_email.
request_email_result(us, email) ==
    LET user == get_user_by_email(us, email)
    IN IF user # None /\ user[1].confirmed
       THEN Response(HTTP_200_OK, "Your email is already confirmed", us)
       ELSE Response(HTTP_200_OK, "Check your email for confirmation.", us)

\* reset_password comparing the two passwords before the look-up
reset_compares_first(us, email, new_password, confirm_password) ==
    LET user == get_user_by_email(us, email)
    IN IF new_password # confirm_password
       THEN Response(HTTP_409_CONFLICT,
                     "New password does not equal to password from field 'Confirm password'",
                     us)
       ELSE IF user = None
       THEN Response(HTTP_404_NOT_FOUND, "Invalid email", us)
       ELSE Response(HTTP_200_OK, "Password reset complete!",
                     repository_reset_password(us, user[1],
                         get_password_hash(new_password)))

reset_password_result(us, email, new_password, confirm_password) ==
    LET user == get_user_by_email(us, email)
    IN IF user = None
       THEN Response(HTTP_404_NOT_FOUND, "Invalid email", us)
       ELSE IF new_password # confirm_password
       THEN Response(HTTP_409_CONFLICT,
                     "New password does not equal to password from field 'Confirm password'",
                     us)
       ELSE Response(HTTP_200_OK, "Password reset complete!",
                     repository_reset_password(us, user[1],
                         get_password_hash(new_password)))

----------------------------------------------------------------------------
\* services/auth.py: CurrentUser.get_current_user with the redis cache.

\* the expiry of a key no EXPIRE was given for (redis: TTL key = -1)
PERSIST == -1

\* a key is there at instant t when it has no expiry or its expiry is ahead
Live(entry, t) == entry.expires = PERSIST \/ t < entry.expires

\* red.get: a key whose expiry has passed is gone.
red_get(email) ==
    IF email \in DOMAIN red /\ Live(red[email], now)
    THEN Some(red[email].user) ELSE None

\* red.set(key, value): the value is stored and any expiry the key had is
\* discarded
red_set(email, user) ==
    [e \in DOMAIN red \cup {email} |->
        IF e = email THEN [user |-> user, expires |-> PERSIST] ELSE red[e]]

\* red.expire(key, 900): a key that is there is given the expiry
red_expire(email) ==
    [e \in DOMAIN red |->
        IF e = email /\ Live(red[e], now)
        THEN [red[e] EXCEPT !.expires = now + CACHE_TTL] ELSE red[e]]

\* red.set followed by red.expire(key, 900)
red_set_expire(email, user) ==
    [e \in DOMAIN red \cup {email} |->
        IF e = email THEN [user |-> user, expires |-> now + CACHE_TTL] ELSE red[e]]

\* the resolver reading the store before the cache
get_current_user_store_first(us, token) ==
    LET decoded == decode_access_token(token)
        cached == red_get(decoded.email)
        user == get_user_by_email(us, decoded.email)
    IN IF ~decoded.ok
       THEN [status |-> decoded.status, detail |-> decoded.detail, user |-> None, red |-> red]
       ELSE IF user # None
       THEN [status |-> HTTP_200_OK, detail |-> "", user |-> user,
             red |-> IF cached # None THEN red ELSE red_set_expire(decoded.email, user[1])]
       ELSE IF cached # None
       THEN [status |-> HTTP_200_OK, detail |-> "", user |-> cached, red |-> red]
       ELSE [status |-> HTTP_401_UNAUTHORIZED, detail |-> "Could not validate credentials",
             user |-> None, red |-> red]

get_current_user_result(us, token) ==
    LET decoded == decode_access_token(token)
        cached == red_get(decoded.email)
        user == get_user_by_email(us, decoded.email)
    IN IF ~decoded.ok
       THEN [status |-> decoded.status, detail |-> decoded.detail, user |-> None, red |-> red]
       ELSE IF cached # None
       THEN [status |-> HTTP_200_OK, detail |-> "", user |-> cached, red |-> red]
       ELSE IF user = None
       THEN [status |-> HTTP_401_UNAUTHORIZED, detail |-> "Could not validate credentials",
             user |-> None, red |-> red]
       ELSE [status |-> HTTP_200_OK, detail |-> "", user |-> user,
             red |-> red_set_expire(decoded.email, user[1])]

----------------------------------------------------------------------------
\* The requests the clients can send.

Scopes == {"access_token", "refresh_token", "email_token"}

Confirmed(us) == {us[i].email : i \in {j \in 1..Len(us) : us[j].confirmed}}

Seen == {clock[i] : i \in 1..Len(clock)}

\* The tokens the service can have handed out: an access and a refresh token
\* to a login or refresh of a confirmed user, an email token in a mail to a
\* registered address (send_email, queued by signup and request_email), each
\* made at an instant the run has seen.
Issued ==
    UNION {{create_access_token(e, None, t), create_refresh_token(e, None, t)} :
              e \in Confirmed(users), t \in Seen}
    \cup {create_email_token(e, t) : e \in Registered(users), t \in Seen}

\* Tokens made without the server's secrets.
Forged ==
    {[sub |-> e, iat |-> now, exp |-> now + ACCESS_EXPIRE, scope |-> s, key |-> "forged"] :
        e \in Emails, s \in Scopes}

Presentable == Issued \cup Forged

Handle(op, r) ==
    /\ users' = r.users
    /\ last' = [op |-> op, status |-> r.status, detail |-> r.detail]
    /\ UNCHANGED <<SECRET_KEY_A, SECRET_KEY_R, clock, red, contacts, links, held, tasks>>

signup(email, password) ==
    Handle("signup", signup_result(users, email, password))

login(email, password) ==
    Handle("login", login_result(users, email, password))

refresh_token(token) ==
    Handle("refresh_token", refresh_token_result(users, token))

confirmed_email(token) ==
    Handle("confirmed_email", confirmed_email_result(users, token))

request_email(email) ==
    Handle("request_email", request_email_result(users, email))

reset_password(email, new_password, confirm_password) ==
    Handle("reset_password",
           reset_password_result(users, email, new_password, confirm_password))

get_current_user(token) ==
    LET r == get_current_user_result(users, token)
    IN /\ red' = r.red
       /\ last' = [op |-> "get_current_user", status |-> r.status, detail |-> r.detail]
       /\ UNCHANGED <<SECRET_KEY_A, SECRET_KEY_R, clock, users, contacts, links, held, tasks>>

\* Time passes; redis drops the keys whose expiry has passed.
Tick(d) ==
    /\ Len(clock) <= MaxTicks
    /\ clock' = Append(clock, now + d)
    /\ red' = [e \in {x \in DOMAIN red : Live(red[x], now + d)} |-> red[e]]
    /\ UNCHANGED <<SECRET_KEY_A, SECRET_KEY_R, users, contacts, links, held, tasks, last>>

\* settings: the two secrets are configured independently, and both default
\* to "secret".
Init ==
    /\ SECRET_KEY_A = "secret"
    /\ SECRET_KEY_R \in Secrets
    /\ clock = <<0>>
    /\ users = <<>>
    /\ red = <<>>
    /\ contacts = <<>>
    /\ links = EmptyBag
    /\ held = None
    /\ tasks = <<>>
    /\ last = [op |-> "", status |-> 0, detail |-> ""]

\* The auth routes.
Next ==
    \/ \E e \in Emails, p \in Passwords : signup(e, p)
    \/ \E e \in Emails, p \in Passwords : login(e, p)
    \/ \E t \in Presentable : refresh_token(t)
    \/ \E t \in Presentable : confirmed_email(t)
    \/ \E e \in Emails : request_email(e)
    \/ \E e \in Emails, p \in Passwords, c \in Passwords : reset_password(e, p, c)
    \/ \E d \in TickSteps : Tick(d)

Spec == Init /\ [][Next]_vars

\* The token-consuming operations (the resolver with its cache, refresh,
\* confirm-email) with the routes that bring the users and their tokens
\* about; the password plays no part and is one value.
OnePassword == CHOOSE p \in Passwords : TRUE

NextResolver ==
    \/ \E e \in Emails : signup(e, OnePassword)
    \/ \E e \in Emails : login(e, OnePassword)
    \/ \E t \in Presentable : refresh_token(t)
    \/ \E t \in Presentable : confirmed_email(t)
    \/ \E t \in Presentable : get_current_user(t)
    \/ \E d \in TickSteps : Tick(d)

SpecResolver == Init /\ [][NextResolver]_vars

----------------------------------------------------------------------------
\* datetime.date

IsLeap(year) == (year % 4 = 0 /\ year % 100 # 0) \/ year % 400 = 0

DaysInMonth(year, month) ==
    IF month = 2 THEN (IF IsLeap(year) THEN 29 ELSE 28)
    ELSE IF month \in {4, 6, 9, 11} THEN 30 ELSE 31

\* date(year=, month=, day=) raises ValueError for a day the month has not
ValidDate(year, month, day) ==
    month \in 1..12 /\ day \in 1..DaysInMonth(year, month)

date(year, month, day) == [year |-> year, month |-> month, day |-> day]

\* d + timedelta(days=1)
NextDay(d) ==
    IF d.day < DaysInMonth(d.year, d.month) THEN date(d.year, d.month, d.day + 1)
    ELSE IF d.month < 12 THEN date(d.year, d.month + 1, 1)
    ELSE date(d.year + 1, 1, 1)

\* d + timedelta(days=i)
RECURSIVE PlusDays(_, _)
PlusDays(d, i) == IF i = 0 THEN d ELSE PlusDays(NextDay(d), i - 1)

\* the days date.today() is read on
Todays == {date(2023, 2, 27), date(2024, 2, 27), date(2024, 6, 1), date(2023, 12, 28)}

\* the values of Contact.birth_date a request carries
BirthDates == {None, Some(date(2000, 2, 29)), Some(date(1999, 1, 2))}

----------------------------------------------------------------------------
\* repository/contacts.py (cs is the contacts table: cs[i] is the row with
\* id i, or None once it is deleted, ids being handed out once; ls is the
\* users_contacts table, a bag of (user_id, contact_id) rows)

Role == {"admin", "moderator", "user"}

\* ContactModel, with first_name standing for the free-text fields
\* (first_name, last_name, notes)
ContactModel ==
    [first_name : FirstNames, email : ContactEmails,
     phone_number : PhoneNumbers, birth_date : BirthDates]

\* the rows of the contacts table
Rows(cs) == {cs[i][1] : i \in {j \in 1..Len(cs) : cs[j] # None}}

\* value ILIKE '%parameter%' on the text columns of the model's rows
ilike(value, parameter) ==
    \/ parameter = "harley" /\ value \in {"Harley", "harley@example.com"}
    \/ parameter = "jessica" /\ value \in {"jessica@example.com"}

get_contact_ids(ls, user) ==
    {l.contact_id : l \in {x \in BagToSet(ls) : x.user_id = user.id}}

\* the query has no ORDER BY: the result is taken as the set of rows, which
\* it is for offset = 0 and a limit (10 by default) no smaller than the table
get_all(cs, ls, user) ==
    {c \in Rows(cs) : c.id \in get_contact_ids(ls, user)}

get_contact_by_id(cs, ls, contact_id, user) ==
    IF contact_id \in get_contact_ids(ls, user)
         /\ \E c \in Rows(cs) : c.id = contact_id
    THEN Some(CHOOSE c \in Rows(cs) : c.id = contact_id)
    ELSE None

create_record(ls, contact_id, user) ==
    ls (+) SetToBag({[user_id |-> user.id, contact_id |-> contact_id]})

\* the unique constraints of contacts.phone_number and contacts.email, as
\* the commit of a row with these values and this id sees them
IntegrityError(cs, contact_id, body) ==
    \E c \in Rows(cs) :
        /\ c.id # contact_id
        /\ c.phone_number = body.phone_number \/ c.email = body.email

\* check linking a contact the caller already has
check_links_again(cs, ls, body, user) ==
    LET existing_contact == {c \in Rows(cs) : c.phone_number = body.phone_number}
    IN IF existing_contact # {}
       THEN create_record(ls, (CHOOSE c \in existing_contact : TRUE).id, user)
       ELSE ls

check(cs, ls, body, user) ==
    LET existing_contact == {c \in Rows(cs) : c.phone_number = body.phone_number}
        user_contacts == get_contact_ids(ls, user)
    IN IF existing_contact # {}
            /\ (CHOOSE c \in existing_contact : TRUE).id \notin user_contacts
       THEN create_record(ls, (CHOOSE c \in existing_contact : TRUE).id, user)
       ELSE ls

\* the function returns nothing (None) after the except branch
repository_create_contact(cs, ls, body, user) ==
    LET contact == [id |-> Len(cs) + 1, first_name |-> body.first_name,
                    email |-> body.email, phone_number |-> body.phone_number,
                    birth_date |-> body.birth_date]
    IN IF IntegrityError(cs, contact.id, body)
       THEN [contact |-> None, contacts |-> cs, links |-> check(cs, ls, body, user)]
       ELSE [contact |-> Some(contact), contacts |-> Append(cs, Some(contact)),
             links |-> create_record(ls, contact.id, user)]

\* ok is false when the commit raises an IntegrityError, which update does
\* not catch
update(cs, ls, contact_id, body, user) ==
    LET contact == get_contact_by_id(cs, ls, contact_id, user)
    IN IF contact = None
       THEN [ok |-> TRUE, contact |-> None, contacts |-> cs]
       ELSE IF IntegrityError(cs, contact_id, body)
       THEN [ok |-> FALSE, contact |-> None, contacts |-> cs]
       ELSE LET updated == [id |-> contact_id, first_name |-> body.first_name,
                            email |-> body.email, phone_number |-> body.phone_number,
                            birth_date |-> body.birth_date]
            IN [ok |-> TRUE, contact |-> Some(updated),
                contacts |-> [cs EXCEPT ![contact_id] = Some(updated)]]

\* db.delete(contact) also deletes the rows of the secondary table
\* users_contacts that name the contact
remove(cs, ls, contact_id, user) ==
    LET contact == get_contact_by_id(cs, ls, contact_id, user)
        kept == {l \in BagToSet(ls) : l.contact_id # contact_id}
    IN IF contact = None
       THEN [contact |-> None, contacts |-> cs, links |-> ls]
       ELSE [contact |-> contact,
             contacts |-> [cs EXCEPT ![contact_id] = None],
             links |-> [l \in kept |-> ls[l]]]

\* of the attributes of Contact, the text columns are matched; an attribute
\* that cannot be matched raises and is skipped
search(cs, ls, parameter, user) ==
    {c \in get_all(cs, ls, user) :
        \/ ilike(c.first_name, parameter)
        \/ ilike(c.email, parameter)
        \/ ilike(c.phone_number, parameter)}

\* ok is false when date(year=current_date.year, ...) raises ValueError
birthdays(cs, ls, user, current_date) ==
    LET dates == {PlusDays(current_date, i) : i \in 0..6}
        with_date == {c \in get_all(cs, ls, user) : c.birth_date # None}
        b_date(c) == date(current_date.year, c.birth_date[1].month, c.birth_date[1].day)
    IN IF \E c \in with_date :
            ~ValidDate(current_date.year, c.birth_date[1].month, c.birth_date[1].day)
       THEN [ok |-> FALSE, result |-> {}]
       ELSE [ok |-> TRUE, result |-> {c \in with_date : b_date(c) \in dates}]

----------------------------------------------------------------------------
\* services/roles.py and routes/contacts.py

allowed_get == {"admin", "moderator", "user"}
allowed_create == {"admin", "moderator", "user"}
allowed_update == {"admin", "moderator"}
allowed_remove == {"admin"}
allowed_search == {"admin", "moderator", "user"}
allowed_get_birthdays == {"admin", "moderator", "user"}

\* the gate letting every resolved identity through
RoleAccess_open(us, token, allowed_roles) ==
    LET resolved == get_current_user_result(us, token)
    IN [status |-> resolved.status, detail |-> resolved.detail,
        current_user |-> resolved.user, red |-> resolved.red]

\* RoleAccess.__call__, given what its dependency, the resolver, answered
RoleAccess_call(resolved, allowed_roles) ==
    IF resolved.status # HTTP_200_OK
    THEN [status |-> resolved.status, detail |-> resolved.detail,
          current_user |-> None, red |-> resolved.red]
    ELSE IF resolved.user[1].roles \notin allowed_roles
    THEN [status |-> HTTP_403_FORBIDDEN, detail |-> "Operation forbidden",
          current_user |-> resolved.user, red |-> resolved.red]
    ELSE [status |-> HTTP_200_OK, detail |-> "",
          current_user |-> resolved.user, red |-> resolved.red]

\* Depends(RoleAccess([...])): the resolver runs, then the gate
RoleAccess(us, token, allowed_roles) ==
    RoleAccess_call(get_current_user_result(us, token), allowed_roles)

\* Depends(RateLimiter(times=..., seconds=...)), reached when the gate let
\* the request through. The limiter (fastapi_limiter, counting in redis) is
\* not part of the program: whether it admits the request is an input.
RateLimiter(gate, limited, admitted) ==
    IF gate.status # HTTP_200_OK THEN gate
    ELSE IF limited /\ ~admitted
    THEN [gate EXCEPT !.status = HTTP_429_TOO_MANY_REQUESTS,
                      !.detail = "Too Many Requests"]
    ELSE gate

\* The dependencies of a route, in the order they are declared: the role
\* gate, then the rate limiter where the route has one.
dependencies(us, token, allowed_roles, limited, admitted) ==
    RateLimiter(RoleAccess(us, token, allowed_roles), limited, admitted)

\* the response of a request the dependencies ended
Refused(dep, cs, ls) ==
    [status |-> dep.status, detail |-> dep.detail, contacts |-> cs, links |-> ls,
     red |-> dep.red, ran |-> FALSE, result |-> {}]

\* the response of a request whose handler ran
Handled(status, detail, dep, cs, ls, result) ==
    [status |-> status, detail |-> detail, contacts |-> cs, links |-> ls,
     red |-> dep.red, ran |-> TRUE, result |-> result]

\* The route functions, given what their dependencies answered (dep).

get_contacts_route(dep, cs, ls) ==
    IF dep.status # HTTP_200_OK THEN Refused(dep, cs, ls)
    ELSE Handled(HTTP_200_OK, "", dep, cs, ls, get_all(cs, ls, dep.current_user[1]))

get_contact_route(dep, cs, ls, contact_id) ==
    LET contact == get_contact_by_id(cs, ls, contact_id, dep.current_user[1])
    IN IF dep.status # HTTP_200_OK THEN Refused(dep, cs, ls)
       ELSE IF contact = None
       THEN Handled(HTTP_404_NOT_FOUND, "Not Found", dep, cs, ls, {})
       ELSE Handled(HTTP_200_OK, "", dep, cs, ls, {contact[1]})

create_contact_route(dep, cs, ls, body) ==
    LET created == repository_create_contact(cs, ls, body, dep.current_user[1])
    IN IF dep.status # HTTP_200_OK THEN Refused(dep, cs, ls)
       ELSE IF created.contact = None
       THEN Handled(HTTP_409_CONFLICT, "Such contact already exists", dep,
                    created.contacts, created.links, {})
       ELSE Handled(HTTP_201_CREATED, "", dep, created.contacts, created.links,
                    {created.contact[1]})

update_contact_route(dep, cs, ls, contact_id, body) ==
    LET updated == update(cs, ls, contact_id, body, dep.current_user[1])
    IN IF dep.status # HTTP_200_OK THEN Refused(dep, cs, ls)
       ELSE IF ~updated.ok
       \* get_db: rollback, HTTPException(400, detail=str(error))
       THEN Handled(HTTP_400_BAD_REQUEST, "IntegrityError", dep, cs, ls, {})
       ELSE IF updated.contact = None
       THEN Handled(HTTP_404_NOT_FOUND, "Not Found", dep, cs, ls, {})
       ELSE Handled(HTTP_200_OK, "", dep, updated.contacts, ls, {updated.contact[1]})

delete_contact_route(dep, cs, ls, contact_id) ==
    LET removed == remove(cs, ls, contact_id, dep.current_user[1])
    IN IF dep.status # HTTP_200_OK THEN Refused(dep, cs, ls)
       ELSE IF removed.contact = None
       THEN Handled(HTTP_404_NOT_FOUND, "Not Found", dep, cs, ls, {})
       ELSE Handled(HTTP_204_NO_CONTENT, "", dep, removed.contacts, removed.links,
                    {removed.contact[1]})

search_by_route(dep, cs, ls, parameter) ==
    LET found == search(cs, ls, parameter, dep.current_user[1])
    IN IF dep.status # HTTP_200_OK THEN Refused(dep, cs, ls)
       ELSE IF found = {}
       THEN Handled(HTTP_404_NOT_FOUND, "Not Found", dep, cs, ls, {})
       ELSE Handled(HTTP_200_OK, "", dep, cs, ls, found)

get_birthdays_route(dep, cs, ls, current_date) ==
    LET found == birthdays(cs, ls, dep.current_user[1], current_date)
    IN IF dep.status # HTTP_200_OK THEN Refused(dep, cs, ls)
       ELSE IF ~found.ok
       \* ValueError, an unhandled exception
       THEN Handled(HTTP_500_INTERNAL_SERVER_ERROR, "Internal Server Error", dep, cs, ls, {})
       ELSE IF found.result = {}
       THEN Handled(HTTP_404_NOT_FOUND, "Not Found", dep, cs, ls, {})
       ELSE Handled(HTTP_200_OK, "", dep, cs, ls, found.result)

\* A request to a route: its dependencies are resolved, then its function
\* is called.

get_contacts_result(us, cs, ls, token, admitted) ==
    get_contacts_route(dependencies(us, token, allowed_get, TRUE, admitted), cs, ls)

get_contact_result(us, cs, ls, token, admitted, contact_id) ==
    get_contact_route(dependencies(us, token, allowed_get, TRUE, admitted),
                      cs, ls, contact_id)

create_contact_result(us, cs, ls, token, admitted, body) ==
    create_contact_route(dependencies(us, token, allowed_create, TRUE, admitted),
                         cs, ls, body)

update_contact_result(us, cs, ls, token, contact_id, body) ==
    update_contact_route(dependencies(us, token, allowed_update, FALSE, TRUE),
                         cs, ls, contact_id, body)

delete_contact_result(us, cs, ls, token, contact_id) ==
    delete_contact_route(dependencies(us, token, allowed_remove, FALSE, TRUE),
                         cs, ls, contact_id)

search_by_result(us, cs, ls, token, admitted, parameter) ==
    search_by_route(dependencies(us, token, allowed_search, TRUE, admitted),
                    cs, ls, parameter)

get_birthdays_result(us, cs, ls, token, admitted, current_date) ==
    get_birthdays_route(dependencies(us, token, allowed_get_birthdays, TRUE, admitted),
                        cs, ls, current_date)

HandleContacts(op, r) ==
    /\ contacts' = r.contacts
    /\ links' = r.links
    /\ red' = r.red
    /\ last' = [op |-> op, status |-> r.status, detail |-> r.detail]
    /\ UNCHANGED <<SECRET_KEY_A, SECRET_KEY_R, clock, users, held, tasks>>

get_contacts(token, admitted) ==
    \E r \in {get_contacts_result(users, contacts, links, token, admitted)} :
        HandleContacts("get_contacts", r)

get_contact(token, admitted, contact_id) ==
    \E r \in {get_contact_result(users, contacts, links, token, admitted, contact_id)} :
        HandleContacts("get_contact", r)

\* the contacts table is given MaxContacts rows
create_contact(token, admitted, body) ==
    \E r \in {create_contact_result(users, contacts, links, token, admitted, body)} :
        /\ Len(r.contacts) <= MaxContacts
        /\ HandleContacts("create_contact", r)

update_contact(token, contact_id, body) ==
    \E r \in {update_contact_result(users, contacts, links, token, contact_id, body)} :
        HandleContacts("update_contact", r)

delete_contact(token, contact_id) ==
    \E r \in {delete_contact_result(users, contacts, links, token, contact_id)} :
        HandleContacts("delete_contact", r)

search_by(token, admitted, parameter) ==
    \E r \in {search_by_result(users, contacts, links, token, admitted, parameter)} :
        HandleContacts("search_by", r)

get_birthdays(token, admitted, current_date) ==
    \E r \in {get_birthdays_result(users, contacts, links, token, admitted, current_date)} :
        HandleContacts("get_birthdays", r)

\* The accounts of a database in use: two confirmed accounts, the first
\* with any role the roles column can be given (no route writes it), the
\* second with the role a signup gives.
Accounts ==
    {<<[id |-> 1, email |-> "a@x.com", password |-> get_password_hash(OnePassword),
        refresh_token |-> None, roles |-> ra, confirmed |-> TRUE],
       [id |-> 2, email |-> "b@x.com", password |-> get_password_hash(OnePassword),
        refresh_token |-> None, roles |-> "user", confirmed |-> TRUE]>> :
        ra \in Role}

\* The bearer tokens the contact routes are sent: the access tokens of the
\* accounts and forged ones.
Bearers == {t \in Presentable : t.scope = "access_token"}

ContactIds == 1..MaxContacts

\* the settings are the default ones; the first account is the admin, who
\* alone can use every route
InitContacts ==
    /\ SECRET_KEY_A = "secret"
    /\ SECRET_KEY_R = "secret"
    /\ clock = <<0>>
    /\ users \in {us \in Accounts : us[1].roles = "admin"}
    /\ red = <<>>
    /\ contacts = <<>>
    /\ links = EmptyBag
    /\ held = None
    /\ tasks = <<>>
    /\ last = [op |-> "", status |-> 0, detail |-> ""]

\* The contact routes that write the tables, and the reads by id and of all.
NextContacts ==
    \/ \E t \in Bearers, ad \in BOOLEAN : get_contacts(t, ad)
    \/ \E t \in Bearers, ad \in BOOLEAN, id \in ContactIds : get_contact(t, ad, id)
    \/ \E t \in Bearers, ad \in BOOLEAN, body \in ContactModel :
          create_contact(t, ad, body)
    \/ \E t \in Bearers, id \in ContactIds, body \in ContactModel :
          update_contact(t, id, body)
    \/ \E t \in Bearers, id \in ContactIds : delete_contact(t, id)

SpecContacts == InitContacts /\ [][NextContacts]_vars

\* Every contact route behind its gate, for accounts of every role; the
\* requests carry one phone number and one email.
GateBodies ==
    {body \in ContactModel :
        body.email = "harley@example.com" /\ body.phone_number = "+380501234567"}

InitRoleGate ==
    /\ SECRET_KEY_A = "secret"
    /\ SECRET_KEY_R = "secret"
    /\ clock = <<0>>
    /\ users \in Accounts
    /\ red = <<>>
    /\ contacts = <<>>
    /\ links = EmptyBag
    /\ held = None
    /\ tasks = <<>>
    /\ last = [op |-> "", status |-> 0, detail |-> ""]

NextRoleGate ==
    \/ \E t \in Bearers, ad \in BOOLEAN : get_contacts(t, ad)
    \/ \E t \in Bearers, ad \in BOOLEAN, id \in ContactIds : get_contact(t, ad, id)
    \/ \E t \in Bearers, ad \in BOOLEAN, body \in GateBodies :
          create_contact(t, ad, body)
    \/ \E t \in Bearers, id \in ContactIds, body \in GateBodies :
          update_contact(t, id, body)
    \/ \E t \in Bearers, id \in ContactIds : delete_contact(t, id)
    \/ \E t \in Bearers, ad \in BOOLEAN, p \in Parameters : search_by(t, ad, p)
    \/ \E t \in Bearers, ad \in BOOLEAN, d \in Todays : get_birthdays(t, ad, d)

SpecRoleGate == InitRoleGate /\ [][NextRoleGate]_vars

----------------------------------------------------------------------------
\* The Token service called on its own: a caller issues a token of one of
\* the three kinds, with or without expires_delta, keeps it, and has it
\* validated, now or later, by any of the three validations.

Overrides == {None} \cup {Some(d) : d \in Deltas}

Issue(op, token, expires_delta) ==
    /\ held' = Some([token |-> token, expires_delta |-> expires_delta])
    /\ last' = [op |-> op, status |-> HTTP_200_OK, detail |-> ""]
    /\ UNCHANGED <<SECRET_KEY_A, SECRET_KEY_R, clock, users, red, contacts, links, tasks>>

issue_access_token(sub, expires_delta) ==
    Issue("create_access_token", create_access_token(sub, expires_delta, now),
          expires_delta)

issue_refresh_token(sub, expires_delta) ==
    Issue("create_refresh_token", create_refresh_token(sub, expires_delta, now),
          expires_delta)

\* create_email_token takes no expires_delta
issue_email_token(sub) ==
    Issue("create_email_token", create_email_token(sub, now), None)

Validate(op, decoded) ==
    /\ held # None
    /\ last' = [op |-> op, status |-> decoded.status, detail |-> decoded.detail]
    /\ UNCHANGED <<SECRET_KEY_A, SECRET_KEY_R, clock, users, red, contacts, links, held, tasks>>

validate_access_token == Validate("get_current_user", decode_access_token(held[1].token))

validate_refresh_token == Validate("decode_refresh_token", decode_refresh_token(held[1].token))

validate_email_token == Validate("get_email_from_token", get_email_from_token(held[1].token))

NextToken ==
    \/ \E e \in Emails, d \in Overrides : issue_access_token(e, d)
    \/ \E e \in Emails, d \in Overrides : issue_refresh_token(e, d)
    \/ \E e \in Emails : issue_email_token(e)
    \/ validate_access_token
    \/ validate_refresh_token
    \/ validate_email_token
    \/ \E d \in TickSteps : Tick(d)

SpecToken == Init /\ [][NextToken]_vars

----------------------------------------------------------------------------
\* Concurrent resolutions: CurrentUser.get_current_user step by step, in
\* several workers that share the store and the cache. A worker is at one
\* of: idle, query (the cache missed, the store is to be read), set (the
\* store returned a user, red.set is to be called), expire (red.set is
\* done, red.expire is to be called). A request takes less than a second:
\* the clock advances only while every worker is idle.

Workers == {1, 2}

\* an idle worker that has returned nothing
Idle == [pc |-> "idle", email |-> "", user |-> None, out |-> None, at |-> 0]

\* a worker that has returned the identity out at the instant at
Returned(out) == [pc |-> "idle", email |-> "", user |-> None, out |-> out, at |-> now]

Answer(op, status, detail) == [op |-> op, status |-> status, detail |-> detail]

\* the try block, then user = self.red.get(f"user:{email}")
resolve_get(w, token) ==
    /\ tasks[w].pc = "idle"
    /\ \E decoded \in {decode_access_token(token)} :
          IF ~decoded.ok
          THEN /\ tasks' = [tasks EXCEPT ![w] = Idle]
               /\ last' = Answer("get_current_user", decoded.status, decoded.detail)
          ELSE \E cached \in {red_get(decoded.email)} :
                  IF cached # None
                  THEN /\ tasks' = [tasks EXCEPT ![w] = Returned(cached)]
                       /\ last' = Answer("get_current_user", HTTP_200_OK, "")
                  ELSE /\ tasks' = [tasks EXCEPT ![w] =
                                       [Idle EXCEPT !.pc = "query", !.email = decoded.email]]
                       /\ last' = last
    /\ UNCHANGED <<SECRET_KEY_A, SECRET_KEY_R, clock, users, red, contacts, links, held>>

\* user = await repository_users.get_user_by_email(email, db)
resolve_query(w) ==
    /\ tasks[w].pc = "query"
    /\ \E user \in {get_user_by_email(users, tasks[w].email)} :
          IF user = None
          THEN /\ tasks' = [tasks EXCEPT ![w] = Idle]
               /\ last' = Answer("get_current_user", HTTP_401_UNAUTHORIZED,
                                 "Could not validate credentials")
          ELSE /\ tasks' = [tasks EXCEPT ![w].pc = "set", ![w].user = user]
               /\ last' = last
    /\ UNCHANGED <<SECRET_KEY_A, SECRET_KEY_R, clock, users, red, contacts, links, held>>

\* self.red.set(f"user:{email}", pickle.dumps(user))
resolve_set(w) ==
    /\ tasks[w].pc = "set"
    /\ red' = red_set(tasks[w].email, tasks[w].user[1])
    /\ tasks' = [tasks EXCEPT ![w].pc = "expire"]
    /\ UNCHANGED <<SECRET_KEY_A, SECRET_KEY_R, clock, users, contacts, links, held, last>>

\* self.red.expire(f"user:{email}", 900); return user
resolve_expire(w) ==
    /\ tasks[w].pc = "expire"
    /\ red' = red_expire(tasks[w].email)
    /\ tasks' = [tasks EXCEPT ![w] = Returned(tasks[w].user)]
    /\ last' = Answer("get_current_user", HTTP_200_OK, "")
    /\ UNCHANGED <<SECRET_KEY_A, SECRET_KEY_R, clock, users, contacts, links, held>>

\* The request ends between the two calls: red.expire raises (the
\* connection to redis is lost) or the worker is stopped.
resolve_fail(w) ==
    /\ tasks[w].pc = "expire"
    /\ tasks' = [tasks EXCEPT ![w] = Idle]
    /\ last' = Answer("get_current_user", HTTP_500_INTERNAL_SERVER_ERROR,
                      "Internal Server Error")
    /\ UNCHANGED <<SECRET_KEY_A, SECRET_KEY_R, clock, users, red, contacts, links, held>>

TickIdle(d) ==
    /\ \A w \in Workers : tasks[w].pc = "idle"
    /\ Tick(d)

\* one confirmed account; the settings are the default ones
InitCache ==
    /\ SECRET_KEY_A = "secret"
    /\ SECRET_KEY_R = "secret"
    /\ clock = <<0>>
    /\ users = <<[id |-> 1, email |-> "a@x.com", password |-> get_password_hash(OnePassword),
                  refresh_token |-> None, roles |-> "user", confirmed |-> TRUE]>>
    /\ red = <<>>
    /\ contacts = <<>>
    /\ links = EmptyBag
    /\ held = None
    /\ tasks = [w \in Workers |-> Idle]
    /\ last = [op |-> "", status |-> 0, detail |-> ""]

\* The resolutions, with the routes that write the identity (login stores a
\* refresh token, reset_password a password) and the clock.
NextCache ==
    \/ \E w \in Workers, t \in Bearers : resolve_get(w, t)
    \/ \E w \in Workers : resolve_query(w)
    \/ \E w \in Workers : resolve_set(w)
    \/ \E w \in Workers : resolve_expire(w)
    \/ \E w \in Workers : resolve_fail(w)
    \/ \E p \in Passwords : login("a@x.com", p)
    \/ \E p \in Passwords : reset_password("a@x.com", p, p)
    \/ \E d \in TickSteps : TickIdle(d)

SpecCache == InitCache /\ [][NextCache]_vars

----------------------------------------------------------------------------
\* Concurrent requests to refresh_token and signup: each handler in two
\* steps, the reads of its session (with the checks made on what was read)
\* and its commit, several clients sharing the users table. A client sends
\* one request. The clock advances only while no request is in flight.

Clients == {1, 2, 3}

NoRequest ==
    [pc |-> "idle", op |-> "", token |-> None, email |-> "", user |-> None,
     status |-> 0, out |-> None, at |-> 0, wrote |-> 0]

\* the request of client c has been answered
Done(c, status, out) ==
    [tasks[c] EXCEPT !.pc = "done", !.status = status, !.out = out, !.at = now]

\* the number of commits that have written the users table
Writes == CHOOSE n \in 0..Cardinality(Clients) :
              /\ \A c \in Clients : tasks[c].wrote <= n
              /\ n = 0 \/ \E c \in Clients : tasks[c].wrote = n

\* user.refresh_token = value; db.commit(): the session writes the column
\* when the value is not the one it loaded (an unchanged attribute is not
\* part of the flush)
commit_token(us, loaded, value) ==
    IF loaded.refresh_token = value THEN us ELSE update_token(us, loaded, value)

\* email = await decode_refresh_token(token); user = await get_user_by_email
refresh_read(c, token) ==
    /\ tasks[c].pc = "idle"
    /\ \E decoded \in {decode_refresh_token(token)} :
          IF ~decoded.ok
          THEN tasks' = [tasks EXCEPT ![c] =
                   [Done(c, decoded.status, None) EXCEPT !.op = "refresh_token",
                                                         !.token = Some(token)]]
          ELSE \E user \in {get_user_by_email(users, decoded.email)} :
                  IF user = None
                  \* user.refresh_token on None: AttributeError
                  THEN tasks' = [tasks EXCEPT ![c] =
                           [Done(c, HTTP_500_INTERNAL_SERVER_ERROR, None)
                               EXCEPT !.op = "refresh_token", !.token = Some(token)]]
                  ELSE tasks' = [tasks EXCEPT ![c] =
                           [NoRequest EXCEPT !.pc = "commit", !.op = "refresh_token",
                                             !.token = Some(token),
                                             !.email = decoded.email, !.user = user]]
    /\ UNCHANGED <<SECRET_KEY_A, SECRET_KEY_R, clock, users, red, contacts, links, held, last>>

\* the comparison with the token the session loaded, then update_token
\* with None or with the new refresh token
refresh_commit(c) ==
    /\ tasks[c].pc = "commit"
    /\ tasks[c].op = "refresh_token"
    /\ \E loaded \in {tasks[c].user[1]} :
          IF loaded.refresh_token # tasks[c].token
          THEN \E written \in {commit_token(users, loaded, None)} :
                  /\ users' = written
                  /\ tasks' = [tasks EXCEPT ![c] =
                        [Done(c, HTTP_401_UNAUTHORIZED, None) EXCEPT
                            !.wrote = IF loaded.refresh_token = None THEN 0
                                      ELSE Writes + 1]]
          ELSE \E refresh_token_ \in {create_refresh_token(loaded.email, None, now)} :
                  \E written \in {commit_token(users, loaded, Some(refresh_token_))} :
                      /\ users' = written
                      /\ tasks' = [tasks EXCEPT ![c] =
                            [Done(c, HTTP_200_OK, Some(refresh_token_)) EXCEPT
                                !.wrote = IF loaded.refresh_token = Some(refresh_token_)
                                          THEN 0 ELSE Writes + 1]]
    /\ UNCHANGED <<SECRET_KEY_A, SECRET_KEY_R, clock, red, contacts, links, held, last>>

\* exist_user = await get_user_by_email(body.email, db)
signup_read(c, email) ==
    /\ tasks[c].pc = "idle"
    /\ \E exist_user \in {get_user_by_email(users, email)} :
          IF exist_user # None
          THEN tasks' = [tasks EXCEPT ![c] =
                   [Done(c, HTTP_409_CONFLICT, None) EXCEPT !.op = "signup",
                                                            !.email = email]]
          ELSE tasks' = [tasks EXCEPT ![c] =
                   [NoRequest EXCEPT !.pc = "commit", !.op = "signup", !.email = email]]
    /\ UNCHANGED <<SECRET_KEY_A, SECRET_KEY_R, clock, users, red, contacts, links, held, last>>

\* new_user = await create_user(body, db): the commit raises IntegrityError
\* when the email has been inserted since, get_db rolls back and answers 400
signup_commit(c) ==
    /\ tasks[c].pc = "commit"
    /\ tasks[c].op = "signup"
    /\ \E created \in {create_user(users, tasks[c].email, get_password_hash(OnePassword))} :
          /\ users' = created.users
          /\ tasks' = [tasks EXCEPT ![c] =
                IF created.ok THEN Done(c, HTTP_201_CREATED, None)
                ELSE Done(c, HTTP_400_BAD_REQUEST, None)]
    /\ UNCHANGED <<SECRET_KEY_A, SECRET_KEY_R, clock, red, contacts, links, held, last>>

TickQuiet(d) ==
    /\ \A c \in Clients : tasks[c].pc # "commit"
    /\ Tick(d)

\* the refresh tokens the clients send: those logins have returned, and
\* forged ones
RefreshBearers == {t \in Presentable : t.scope = "refresh_token"}

\* one confirmed account that has logged in at the first instant; the
\* settings are the default ones
InitRace ==
    /\ SECRET_KEY_A = "secret"
    /\ SECRET_KEY_R = "secret"
    /\ clock = <<0>>
    /\ users = <<[id |-> 1, email |-> "a@x.com", password |-> get_password_hash(OnePassword),
                  refresh_token |-> Some(create_refresh_token("a@x.com", None, 0)),
                  roles |-> "user", confirmed |-> TRUE]>>
    /\ red = <<>>
    /\ contacts = <<>>
    /\ links = EmptyBag
    /\ held = None
    /\ tasks = [c \in Clients |-> NoRequest]
    /\ last = [op |-> "", status |-> 0, detail |-> ""]

NextRace ==
    \/ \E c \in Clients, t \in RefreshBearers : refresh_read(c, t)
    \/ \E c \in Clients : refresh_commit(c)
    \/ \E c \in Clients, e \in Emails : signup_read(c, e)
    \/ \E c \in Clients : signup_commit(c)
    \/ \E d \in TickSteps : TickQuiet(d)

SpecRace == InitRace /\ [][NextRace]_vars

----------------------------------------------------------------------------
\* Properties.

\* the row of the identity with this email
RowOf(us, email) == us[CHOOSE i \in 1..Len(us) : us[i].email = email]

Unconfirmed(us) == Registered(us) \ Confirmed(us)

\* C1: in every state the auth routes can reach, a login for an identity
\* whose confirmed flag is false is answered 401 and returns neither an
\* access nor a refresh token, whatever password is supplied.
C1_UnconfirmedGetsNoToken ==
    \A e \in Unconfirmed(users), p \in Passwords :
        LET r == login_result(users, e, p)
        IN /\ r.status = HTTP_401_UNAUTHORIZED
           /\ r.access = None
           /\ r.refresh = None

\* a login has just been refused for want of confirmation, while another
\* identity is confirmed
C1_Witness ==
    /\ last.op = "login"
    /\ last.detail = EMAIL_NOT_CONFIRMED
    /\ Unconfirmed(users) # {}
    /\ Confirmed(users) # {}

\* C2: for every token the service can have issued, and every forged one,
\* under equal and under distinct secrets: the resolver accepts it only if
\* its scope is access, refresh accepts it only if its scope is refresh,
\* confirm-email accepts it only if its scope is email. Accepting is passing
\* the operation's token validation, and so is answering 200.
C2_ScopeMatchesOperation ==
    \A t \in Presentable :
        /\ decode_access_token(t).ok => t.scope = "access_token"
        /\ get_current_user_result(users, t).status = HTTP_200_OK
              => t.scope = "access_token"
        /\ decode_refresh_token(t).ok => t.scope = "refresh_token"
        /\ refresh_token_result(users, t).status = HTTP_200_OK
              => t.scope = "refresh_token"
        /\ get_email_from_token(t).ok => t.scope = "email_token"
        /\ confirmed_email_result(users, t).status = HTTP_200_OK
              => t.scope = "email_token"

\* with equal secrets, a token that passes the signature check of the
\* refresh endpoint has just been refused there for its scope, while the
\* resolver has an identity in its cache
C2_Witness ==
    /\ SECRET_KEY_A = SECRET_KEY_R
    /\ last.op = "refresh_token"
    /\ last.detail = "Invalid scope for token"
    /\ DOMAIN red # {}

\* C3: login fails with 401 for exactly three causes, checked in this
\* order, each with its own message: unknown email, identity not confirmed
\* (whether or not the password is right), password mismatch; otherwise it
\* succeeds; and a failed login leaves every identity as it was.
C3_LoginFailures ==
    /\ Cardinality({INVALID_EMAIL, EMAIL_NOT_CONFIRMED, INVALID_PASSWORD}) = 3
    /\ \A e \in Emails, p \in Passwords :
        LET r == login_result(users, e, p)
            failed(detail) == /\ r.status = HTTP_401_UNAUTHORIZED
                              /\ r.detail = detail
                              /\ r.users = users
        IN /\ e \notin Registered(users) => failed(INVALID_EMAIL)
           /\ e \in Unconfirmed(users) => failed(EMAIL_NOT_CONFIRMED)
           /\ e \in Confirmed(users) /\ RowOf(users, e).password.bcrypt # p
                => failed(INVALID_PASSWORD)
           /\ e \in Confirmed(users) /\ RowOf(users, e).password.bcrypt = p
                => r.status = HTTP_200_OK

\* a login with a wrong password has just failed on a confirmed identity
\* that holds a stored refresh token, while another identity is unconfirmed
C3_Witness ==
    /\ last.op = "login"
    /\ last.detail = INVALID_PASSWORD
    /\ \E e \in Confirmed(users) : RowOf(users, e).refresh_token # None
    /\ Unconfirmed(users) # {}

\* C4: signup with an email no identity has creates exactly one identity
\* (that email, confirmed false, role user, no stored refresh token), leaves
\* the others alone and returns 201; signup with an email an identity has
\* returns 409 "Account already exists" and leaves the table unchanged; and
\* no two identities share an email.
C4_Signup ==
    /\ \A i, j \in 1..Len(users) : users[i].email = users[j].email => i = j
    /\ \A e \in Emails, p \in Passwords :
        LET r == signup_result(users, e, p)
        IN IF e \in Registered(users)
           THEN /\ r.status = HTTP_409_CONFLICT
                /\ r.detail = "Account already exists"
                /\ r.users = users
           ELSE /\ r.status = HTTP_201_CREATED
                /\ Len(r.users) = Len(users) + 1
                /\ SubSeq(r.users, 1, Len(users)) = users
                /\ r.users[Len(r.users)].email = e
                /\ r.users[Len(r.users)].confirmed = FALSE
                /\ r.users[Len(r.users)].roles = "user"
                /\ r.users[Len(r.users)].refresh_token = None
                /\ verify_password(p, r.users[Len(r.users)].password)

\* a second signup with a registered email has just been refused
C4_Witness ==
    /\ last.op = "signup"
    /\ last.status = HTTP_409_CONFLICT
    /\ Len(users) = 2

\* a token that passes the email validation: signed with the email-class
\* secret, not expired, of email scope
ValidEmailToken(t) ==
    t.key = SECRET_KEY_A /\ t.exp >= now /\ t.scope = "email_token"

\* a token that passes the refresh validation
ValidRefreshToken(t) ==
    t.key = SECRET_KEY_R /\ t.exp >= now /\ t.scope = "refresh_token"

\* the tables the auth routes can leave, over every request
RouteTables ==
    {signup_result(users, e, p).users : e \in Emails, p \in Passwords}
    \cup {login_result(users, e, p).users : e \in Emails, p \in Passwords}
    \cup {refresh_token_result(users, t).users : t \in Presentable}
    \cup {confirmed_email_result(users, t).users : t \in Presentable}
    \cup {request_email_result(users, e).users : e \in Emails}
    \cup {reset_password_result(users, e, p, c).users :
             e \in Emails, p \in Passwords, c \in Passwords}

\* C5: a login on an identity not yet confirmed fails 401 (email not
\* confirmed); confirm-email with a valid email token of the identity
\* returns 200 and leaves it confirmed, and a login with the right password
\* then returns 200 with an access and a refresh token, as does every login
\* with the right password on a confirmed identity; confirm-email on a
\* confirmed identity returns 200 and changes nothing; and no route takes a
\* confirmed identity back to unconfirmed.
C5_ConfirmThenLogin ==
    /\ \A us \in RouteTables : Confirmed(users) \subseteq Confirmed(us)
    /\ \A e \in Registered(users), p \in Passwords :
        LET l == login_result(users, e, p)
        IN /\ e \in Unconfirmed(users) =>
                l.status = HTTP_401_UNAUTHORIZED /\ l.detail = EMAIL_NOT_CONFIRMED
           /\ e \in Confirmed(users) /\ RowOf(users, e).password.bcrypt = p =>
                l.status = HTTP_200_OK /\ l.access # None /\ l.refresh # None
           /\ \A t \in Presentable :
                ValidEmailToken(t) /\ t.sub = e =>
                    LET c == confirmed_email_result(users, t)
                        after == login_result(c.users, e, p)
                    IN /\ c.status = HTTP_200_OK
                       /\ RowOf(c.users, e).confirmed = TRUE
                       /\ \A i \in 1..Len(users) :
                            c.users[i] = IF users[i].email = e
                                         THEN [users[i] EXCEPT !.confirmed = TRUE]
                                         ELSE users[i]
                       /\ e \in Confirmed(users) => c.users = users
                       /\ RowOf(users, e).password.bcrypt = p =>
                            /\ after.status = HTTP_200_OK
                            /\ after.access # None
                            /\ after.refresh # None

\* a login has just succeeded, after the clock advanced, for an identity
\* that confirm-email confirmed, while another identity is still unconfirmed
C5_Witness ==
    /\ last.op = "login"
    /\ last.status = HTTP_200_OK
    /\ Len(clock) > 1
    /\ Unconfirmed(users) # {}

\* C6: a refresh whose token passes validation (signature, expiry, refresh
\* scope) but differs from the identity's stored refresh token fails with
\* 401 and leaves the stored token null; the same token presented again
\* fails with 401 again.
C6_MismatchClears ==
    \A t \in Presentable :
        /\ ValidRefreshToken(t)
        /\ t.sub \in Registered(users)
        /\ RowOf(users, t.sub).refresh_token # Some(t)
        => LET r == refresh_token_result(users, t)
               again == refresh_token_result(r.users, t)
           IN /\ r.status = HTTP_401_UNAUTHORIZED
              /\ RowOf(r.users, t.sub).refresh_token = None
              /\ again.status = HTTP_401_UNAUTHORIZED
              /\ RowOf(again.users, t.sub).refresh_token = None

\* a refresh has just been refused as not the stored token
C6_Witness ==
    /\ last.op = "refresh_token"
    /\ last.detail = "Invalid refresh token"
    /\ \E e \in Confirmed(users) : RowOf(users, e).refresh_token = None

\* C7: a refresh presenting a valid refresh token equal to the identity's
\* stored one returns 200 with an access and a refresh token made now for
\* the same subject, and the stored refresh token is then the one returned.
C7_RefreshRotates ==
    \A t \in Presentable :
        /\ ValidRefreshToken(t)
        /\ t.sub \in Registered(users)
        /\ RowOf(users, t.sub).refresh_token = Some(t)
        => LET r == refresh_token_result(users, t)
           IN /\ r.status = HTTP_200_OK
              /\ r.access # None /\ r.refresh # None
              /\ r.access[1].sub = t.sub /\ r.refresh[1].sub = t.sub
              /\ r.access[1].scope = "access_token"
              /\ r.refresh[1].scope = "refresh_token"
              /\ r.access[1].iat = now /\ r.refresh[1].iat = now
              /\ RowOf(r.users, t.sub).refresh_token = r.refresh

\* a refresh has just succeeded at a later instant than the login before it
C7_Witness ==
    /\ last.op = "refresh_token"
    /\ last.status = HTTP_200_OK
    /\ now > 0
    /\ \E e \in Confirmed(users) :
          /\ RowOf(users, e).refresh_token # None
          /\ RowOf(users, e).refresh_token[1].iat = now

\* C8: while an identity's stored refresh token is null, every refresh for
\* that identity fails with 401 whatever token is presented, and no request
\* other than a successful login of that identity stores a token for it;
\* after a successful login a refresh with the token it returned succeeds.
C8_ReloginRequired ==
    /\ \A e \in Registered(users) :
          RowOf(users, e).refresh_token = None =>
            /\ \A t \in Presentable :
                  t.sub = e =>
                    LET r == refresh_token_result(users, t)
                    IN /\ r.status = HTTP_401_UNAUTHORIZED
                       /\ RowOf(r.users, e).refresh_token = None
            /\ \A us \in RouteTables :
                  RowOf(us, e).refresh_token # None =>
                    \E p \in Passwords :
                        /\ login_result(users, e, p).status = HTTP_200_OK
                        /\ login_result(users, e, p).users = us
    /\ \A e \in Emails, p \in Passwords :
          LET l == login_result(users, e, p)
          IN l.status = HTTP_200_OK =>
                refresh_token_result(l.users, l.refresh[1]).status = HTTP_200_OK

\* the stored token of a confirmed identity is null, a refresh for it has
\* just been refused, and the token its last login returned is still valid
C8_Witness ==
    /\ last.op = "refresh_token"
    /\ last.status = HTTP_401_UNAUTHORIZED
    /\ \E e \in Confirmed(users) :
          /\ RowOf(users, e).refresh_token = None
          /\ \E t \in Issued : ValidRefreshToken(t) /\ t.sub = e /\ t.iat = now
    /\ Len(clock) > 1

\* what reset-password answers, and that its 404 and 409 leave the table
\* (so every stored hash) as it was
ResetOutcomes(e, p, c) ==
    LET r == reset_password_result(users, e, p, c)
    IN /\ e \notin Registered(users) =>
            r.status = HTTP_404_NOT_FOUND /\ r.users = users
       /\ e \in Registered(users) /\ p # c =>
            r.status = HTTP_409_CONFLICT /\ r.users = users
       /\ e \in Registered(users) /\ p = c => r.status = HTTP_200_OK

\* C9 as stated: reset-password returns 404 for an unknown email (also when
\* the two passwords differ), 409 for a known email with differing
\* passwords, 200 otherwise; 404 and 409 leave the stored hash unchanged;
\* after a 200 a login on the (confirmed) identity succeeds with the new
\* password and fails with the previous password.
C9_AsStated ==
    \A e \in Emails, p \in Passwords, c \in Passwords :
        /\ ResetOutcomes(e, p, c)
        /\ e \in Confirmed(users) /\ p = c =>
            LET r == reset_password_result(users, e, p, c)
                previous == RowOf(users, e).password.bcrypt
            IN /\ login_result(r.users, e, p).status = HTTP_200_OK
               /\ login_result(r.users, e, previous).status = HTTP_401_UNAUTHORIZED

\* C9, amended: the same, the login with the previous password failing
\* (401, invalid password) when the previous password is not the new one.
C9_ResetPassword ==
    \A e \in Emails, p \in Passwords, c \in Passwords :
        /\ ResetOutcomes(e, p, c)
        /\ e \in Confirmed(users) /\ p = c =>
            LET r == reset_password_result(users, e, p, c)
                previous == RowOf(users, e).password.bcrypt
            IN /\ login_result(r.users, e, p).status = HTTP_200_OK
               /\ \A q \in Passwords :
                    q # p => /\ login_result(r.users, e, q).status = HTTP_401_UNAUTHORIZED
                             /\ login_result(r.users, e, q).detail = INVALID_PASSWORD
               /\ previous # p =>
                    login_result(r.users, e, previous).status = HTTP_401_UNAUTHORIZED

\* a reset-password has just succeeded while both identities are confirmed
\* and hold different passwords
C9_Witness ==
    /\ last.op = "reset_password"
    /\ last.status = HTTP_200_OK
    /\ Len(users) = 2
    /\ Confirmed(users) = Registered(users)
    /\ users[1].password # users[2].password

\* C10 as stated: from every state of an existing identity, UNCONFIRMED
\* included, a successful reset-password leaves the identity CONFIRMED with
\* the new hash stored, and a login with the new password right after it
\* succeeds.
C10_AsStated ==
    \A e \in Registered(users), p \in Passwords :
        LET r == reset_password_result(users, e, p, p)
        IN /\ r.status = HTTP_200_OK
           /\ verify_password(p, RowOf(r.users, e).password)
           /\ RowOf(r.users, e).confirmed = TRUE
           /\ login_result(r.users, e, p).status = HTTP_200_OK

\* C10, amended: a successful reset-password stores the new hash and leaves
\* the confirmed flag (and the rest of the row, and every other row) as it
\* was; a login with the new password right after it succeeds when the
\* identity was CONFIRMED, and fails 401 (email not confirmed) when it was
\* UNCONFIRMED.
C10_ResetKeepsState ==
    \A e \in Registered(users), p \in Passwords :
        LET r == reset_password_result(users, e, p, p)
            l == login_result(r.users, e, p)
        IN /\ r.status = HTTP_200_OK
           /\ \A i \in 1..Len(users) :
                r.users[i] = IF users[i].email = e
                             THEN [users[i] EXCEPT !.password = RowOf(r.users, e).password]
                             ELSE users[i]
           /\ RowOf(r.users, e).password.bcrypt = p
           /\ e \in Confirmed(users) => l.status = HTTP_200_OK
           /\ e \in Unconfirmed(users) =>
                /\ l.status = HTTP_401_UNAUTHORIZED
                /\ l.detail = EMAIL_NOT_CONFIRMED

\* a reset-password has just succeeded on the only identity, which is
\* unconfirmed
C10_Witness ==
    /\ last.op = "reset_password"
    /\ last.status = HTTP_200_OK
    /\ Len(users) = 1
    /\ Unconfirmed(users) # {}

\* every request the contact routes can be sent with this bearer token and
\* this verdict of the rate limiter, with the route's kind and its response
ContactRequests(t, ad) ==
    {[route |-> "read", limited |-> TRUE,
      r |-> get_contacts_result(users, contacts, links, t, ad)]}
    \cup {[route |-> "read", limited |-> TRUE,
           r |-> get_contact_result(users, contacts, links, t, ad, id)] :
             id \in ContactIds}
    \cup {[route |-> "create", limited |-> TRUE,
           r |-> create_contact_result(users, contacts, links, t, ad, body)] :
             body \in ContactModel}
    \cup {[route |-> "update", limited |-> FALSE,
           r |-> update_contact_result(users, contacts, links, t, id, body)] :
             id \in ContactIds, body \in ContactModel}
    \cup {[route |-> "delete", limited |-> FALSE,
           r |-> delete_contact_result(users, contacts, links, t, id)] :
             id \in ContactIds}
    \cup {[route |-> "search", limited |-> TRUE,
           r |-> search_by_result(users, contacts, links, t, ad, p)] :
             p \in Parameters}
    \cup {[route |-> "birthdays", limited |-> TRUE,
           r |-> get_birthdays_result(users, contacts, links, t, ad, d)] :
             d \in Todays}

\* the allow-lists as C11 states them
StatedAllowList(route) ==
    IF route = "update" THEN {"admin", "moderator"}
    ELSE IF route = "delete" THEN {"admin"}
    ELSE {"admin", "moderator", "user"}

\* C11: on every contact route, for every bearer token and every request
\* the rate limiter admits (the limiter is an external service the gate is
\* followed by), the handler runs if and only if the token resolves to an
\* identity whose role is in the route's allow-list (read, create, search,
\* birthdays: admin, moderator, user; update: admin, moderator; delete:
\* admin); a resolved identity with a role outside the list gets 403, the
\* handler does not run and the contacts and their links are unchanged; a
\* token that does not resolve gets 401, never 403.
C11_RoleGate ==
    \A t \in Presentable, ad \in BOOLEAN :
        \A q \in ContactRequests(t, ad) :
            LET resolved == get_current_user_result(users, t)
                allowed == StatedAllowList(q.route)
            IN /\ q.r.ran => /\ resolved.status = HTTP_200_OK
                             /\ resolved.user[1].roles \in allowed
               /\ resolved.status = HTTP_200_OK
                    /\ resolved.user[1].roles \in allowed
                    /\ (ad \/ ~q.limited)
                    => q.r.ran
               /\ resolved.status = HTTP_200_OK
                    /\ resolved.user[1].roles \notin allowed
                    => /\ q.r.status = HTTP_403_FORBIDDEN
                       /\ ~q.r.ran
                       /\ q.r.contacts = contacts
                       /\ q.r.links = links
               /\ resolved.status # HTTP_200_OK
                    => /\ q.r.status = HTTP_401_UNAUTHORIZED
                       /\ ~q.r.ran
                       /\ q.r.contacts = contacts
                       /\ q.r.links = links

\* a delete has just been refused with 403 while the caller has a contact
\* it created and the resolver has the caller's identity in its cache
C11_Witness ==
    /\ last.op = "delete_contact"
    /\ last.status = HTTP_403_FORBIDDEN
    /\ \E u \in 1..Len(users) :
          /\ users[u].roles # "admin"
          /\ users[u].email \in DOMAIN red
          /\ get_contact_ids(links, users[u]) # {}

\* Tokens of every make: any subject (the empty one included), any scope,
\* signed with either secret or with neither (as is a malformed token, which
\* jwt.decode refuses with the same JWTError), expired a second ago,
\* expiring now or later.
AnyToken ==
    [sub : Emails \cup {""}, iat : {now}, exp : {now - 1, now, now + ACCESS_EXPIRE},
     scope : Scopes, key : {SECRET_KEY_A, SECRET_KEY_R, "forged"}]

\* C12: whatever makes the resolver fail (bad signature, expired token,
\* scope other than access, empty subject, subject with no identity in cache
\* or store), the failure is the same 401 with the same detail and no
\* identity, and the cache is left as it was; each of the five causes does
\* make it fail.
C12_UniformFailure ==
    \A t \in AnyToken \cup Presentable :
        LET r == get_current_user_result(users, t)
        IN /\ r.status # HTTP_200_OK =>
                r = [status |-> HTTP_401_UNAUTHORIZED,
                     detail |-> "Could not validate credentials",
                     user |-> None, red |-> red]
           /\ \/ t.key # SECRET_KEY_A
              \/ t.exp < now
              \/ t.scope # "access_token"
              \/ t.sub = ""
              \/ red_get(t.sub) = None /\ t.sub \notin Registered(users)
              => r.status = HTTP_401_UNAUTHORIZED

\* the resolver has just failed, after the clock advanced, while its cache
\* holds an identity and an email has no identity
C12_Witness ==
    /\ last.op = "get_current_user"
    /\ last.status = HTTP_401_UNAUTHORIZED
    /\ Len(clock) > 1
    /\ DOMAIN red # {}
    /\ \E e \in Emails : e \notin Registered(users)

\* the tokens the service has issued that have not expired
Unexpired == {t \in Issued : t.exp >= now}

\* C13 as stated: under every configuration of the secrets, an access token
\* where a refresh token is expected and a refresh token where an access
\* token is expected pass the signature check and fail at the scope check;
\* the access token a login returns, presented to the refresh endpoint,
\* yields 401 with the invalid-scope message.
C13_AsStated ==
    /\ \A t \in Unexpired :
        /\ t.scope = "access_token" =>
              /\ jwt_decode(t, SECRET_KEY_R).ok
              /\ decode_refresh_token(t) = Fail(HTTP_401_UNAUTHORIZED, "Invalid scope for token")
        /\ t.scope = "refresh_token" =>
              /\ jwt_decode(t, SECRET_KEY_A).ok
              /\ ~decode_access_token(t).ok
    /\ \A e \in Emails, p \in Passwords :
          LET l == login_result(users, e, p)
              r == refresh_token_result(l.users, l.access[1])
          IN l.status = HTTP_200_OK =>
                /\ r.status = HTTP_401_UNAUTHORIZED
                /\ r.detail = "Invalid scope for token"

\* C13, amended: when the two secrets are equal (as they are by default) it
\* is as stated; when they differ, the token of the other class fails at the
\* signature check, and the access token a login returns, presented to the
\* refresh endpoint, yields 401 "Could not validate credentials". In both
\* configurations the request is refused with 401 and nothing is stored.
C13_ScopeMismatch ==
    /\ \A t \in Unexpired :
        /\ t.scope = "access_token" =>
              /\ jwt_decode(t, SECRET_KEY_R).ok <=> SECRET_KEY_A = SECRET_KEY_R
              /\ decode_refresh_token(t) =
                    IF SECRET_KEY_A = SECRET_KEY_R
                    THEN Fail(HTTP_401_UNAUTHORIZED, "Invalid scope for token")
                    ELSE Fail(HTTP_401_UNAUTHORIZED, "Could not validate credentials")
        /\ t.scope = "refresh_token" =>
              /\ jwt_decode(t, SECRET_KEY_A).ok <=> SECRET_KEY_A = SECRET_KEY_R
              /\ decode_access_token(t) =
                    Fail(HTTP_401_UNAUTHORIZED, "Could not validate credentials")
    /\ \A e \in Emails, p \in Passwords :
          LET l == login_result(users, e, p)
              r == refresh_token_result(l.users, l.access[1])
          IN l.status = HTTP_200_OK =>
                /\ r.status = HTTP_401_UNAUTHORIZED
                /\ r.detail = IF SECRET_KEY_A = SECRET_KEY_R
                              THEN "Invalid scope for token"
                              ELSE "Could not validate credentials"
                /\ r.users = l.users

\* with distinct secrets, before any token has expired, the refresh endpoint
\* has just refused a token at the signature check while an identity holds
\* the refresh token of its login
C13_Witness ==
    /\ SECRET_KEY_A # SECRET_KEY_R
    /\ Len(clock) = 1
    /\ last.op = "refresh_token"
    /\ last.detail = "Could not validate credentials"
    /\ \E e \in Confirmed(users) : RowOf(users, e).refresh_token # None

\* the token fails jwt.decode under this key: signature or expiry
Undecodable(t, key) == t.key # key \/ t.exp < now

\* C14: every validation checks signature and expiry before scope. On
\* confirm-email a token that fails decoding (malformed, expired, not signed
\* with the email-class secret) yields 422 whatever its scope, and a token
\* that decodes but has another scope yields 401; on the refresh endpoint
\* and in the resolver both kinds of failure yield 401, the decoding failure
\* taking precedence; no validation ends in anything but the subject, 401
\* or 422.
C14_ValidationOrder ==
    \A t \in AnyToken \cup Presentable :
        LET em == get_email_from_token(t)
            rf == decode_refresh_token(t)
            ac == decode_access_token(t)
        IN /\ Undecodable(t, SECRET_KEY_A) =>
                /\ em = Fail(HTTP_422_UNPROCESSABLE_ENTITY,
                             "Invalid token for email verification")
                /\ confirmed_email_result(users, t).status = HTTP_422_UNPROCESSABLE_ENTITY
                /\ ac = Fail(HTTP_401_UNAUTHORIZED, "Could not validate credentials")
                /\ get_current_user_result(users, t).status = HTTP_401_UNAUTHORIZED
           /\ ~Undecodable(t, SECRET_KEY_A) /\ t.scope # "email_token" =>
                /\ em = Fail(HTTP_401_UNAUTHORIZED, "Invalid scope for token")
                /\ confirmed_email_result(users, t).status = HTTP_401_UNAUTHORIZED
           /\ ~Undecodable(t, SECRET_KEY_A) /\ t.scope = "email_token" =>
                em = Subject(t.sub)
           /\ ~Undecodable(t, SECRET_KEY_A) /\ t.scope # "access_token" =>
                /\ ac.status = HTTP_401_UNAUTHORIZED
                /\ get_current_user_result(users, t).status = HTTP_401_UNAUTHORIZED
           /\ Undecodable(t, SECRET_KEY_R) =>
                /\ rf = Fail(HTTP_401_UNAUTHORIZED, "Could not validate credentials")
                /\ refresh_token_result(users, t).status = HTTP_401_UNAUTHORIZED
           /\ ~Undecodable(t, SECRET_KEY_R) /\ t.scope # "refresh_token" =>
                /\ rf = Fail(HTTP_401_UNAUTHORIZED, "Invalid scope for token")
                /\ refresh_token_result(users, t).status = HTTP_401_UNAUTHORIZED
           /\ ~Undecodable(t, SECRET_KEY_R) /\ t.scope = "refresh_token" =>
                rf = Subject(t.sub)
           /\ \A v \in {em, rf, ac} :
                \/ v = Subject(t.sub)
                \/ ~v.ok /\ v.status \in {HTTP_401_UNAUTHORIZED,
                                          HTTP_422_UNPROCESSABLE_ENTITY}

\* confirm-email has just answered 401 to a token of another scope, after
\* the clock advanced, while an identity holds a refresh token
C14_Witness ==
    /\ last.op = "confirmed_email"
    /\ last.status = HTTP_401_UNAUTHORIZED
    /\ Len(clock) > 1
    /\ \E e \in Confirmed(users) : RowOf(users, e).refresh_token # None

\* the default lifetime of a token of this scope
DefaultExpire(scope) ==
    IF scope = "access_token" THEN ACCESS_EXPIRE
    ELSE IF scope = "refresh_token" THEN REFRESH_EXPIRE
    ELSE EMAIL_EXPIRE

\* the validation that expects this scope
ValidateAs(scope, t) ==
    IF scope = "access_token" THEN decode_access_token(t)
    ELSE IF scope = "refresh_token" THEN decode_refresh_token(t)
    ELSE get_email_from_token(t)

\* the lifetime an issue with this override asks for
Asked(scope, expires_delta) ==
    IF expires_delta = None THEN DefaultExpire(scope) ELSE expires_delta[1]

\* C15: a token of each kind issued at its iat without an override
\* expires at iat + default (15 minutes, 7 days, 1 day), one issued with an
\* override d expires at iat + d, for every d, 0 included; and the validation
\* of its kind accepts the token only at times not later than its expiry.
C15_AsStated ==
    held # None =>
        LET t == held[1].token
        IN /\ t.exp = t.iat + Asked(t.scope, held[1].expires_delta)
           /\ ValidateAs(t.scope, t).ok => now <= t.exp

\* a token issued with the override 0 has just been accepted by the
\* validation of its kind, at a later second than it was issued in
C15_Witness ==
    /\ held # None
    /\ held[1].expires_delta = Some(0)
    /\ now > held[1].token.iat
    /\ last.op \in {"get_current_user", "decode_refresh_token"}
    /\ last.status = HTTP_200_OK
    /\ ValidateAs(held[1].token.scope, held[1].token).ok

\* C16: for every scope, every subject and every lifetime t > 0 the issue
\* takes (the email kind has the one lifetime of a day), the validation of
\* that scope, made in the second of the issue, returns exactly the subject.
C16_RoundTrip ==
    /\ \A e \in Emails, d \in Overrides :
          Asked("access_token", d) > 0 =>
              /\ decode_access_token(create_access_token(e, d, now)) = Subject(e)
              /\ decode_refresh_token(create_refresh_token(e, d, now)) = Subject(e)
              /\ get_email_from_token(create_email_token(e, now)) = Subject(e)
    /\ held # None /\ held[1].token.iat = now
          /\ Asked(held[1].token.scope, held[1].expires_delta) > 0
          => ValidateAs(held[1].token.scope, held[1].token) = Subject(held[1].token.sub)

\* a refresh token issued with a lifetime of one second has just been
\* validated, in the second of its issue and after the clock advanced
C16_Witness ==
    /\ held # None
    /\ held[1].token.scope = "refresh_token"
    /\ held[1].expires_delta = Some(1)
    /\ held[1].token.iat = now
    /\ Len(clock) > 1
    /\ last.op = "decode_refresh_token"
    /\ last.status = HTTP_200_OK

\* the users tables in which an identity has this token stored
StoredIn(t) ==
    {update_token(us, us[i], Some(t)) : us \in Accounts, i \in 1..2}

\* C17: an access or refresh token issued with a lifetime of -1, at any
\* instant up to now, fails decoding as expired (with the key of its class)
\* now, so at the issue and at every later time; the resolver and the
\* refresh endpoint refuse it with 401, also for an identity that exists and
\* has that very token stored.
C17_NegativeTtl ==
    /\ \A e \in Emails, t0 \in Seen :
          LET a == create_access_token(e, Some(-1), t0)
              r == create_refresh_token(e, Some(-1), t0)
          IN /\ jwt_decode(a, SECRET_KEY_A) = [ok |-> FALSE, err |-> "expired"]
             /\ jwt_decode(r, SECRET_KEY_R) = [ok |-> FALSE, err |-> "expired"]
             /\ ~decode_access_token(a).ok
             /\ ~decode_refresh_token(r).ok
             /\ \A t \in {a, r} :
                   /\ get_current_user_result(users, t).status = HTTP_401_UNAUTHORIZED
                   /\ refresh_token_result(users, t).status = HTTP_401_UNAUTHORIZED
                   /\ \A us \in StoredIn(t) :
                         /\ get_current_user_result(us, t).status = HTTP_401_UNAUTHORIZED
                         /\ refresh_token_result(us, t).status = HTTP_401_UNAUTHORIZED
    /\ held # None /\ held[1].expires_delta = Some(-1) =>
          /\ ~decode_access_token(held[1].token).ok
          /\ ~decode_refresh_token(held[1].token).ok

\* a token issued with a lifetime of -1 has just been refused by the
\* validation of its kind, at a later second than it was issued in
C17_Witness ==
    /\ held # None
    /\ held[1].expires_delta = Some(-1)
    /\ now > held[1].token.iat
    /\ \/ last.op = "get_current_user" /\ held[1].token.scope = "access_token"
       \/ last.op = "decode_refresh_token" /\ held[1].token.scope = "refresh_token"
    /\ last.status = HTTP_401_UNAUTHORIZED

\* C18 as stated: in every configuration, the default one included, no
\* token the service signed with the refresh secret passes the signature
\* check under the access secret, and no token it signed with the access
\* secret (access or email scope) passes it under the refresh secret.
C18_IndependentSecrets ==
    \A t \in Issued :
        /\ t.scope = "refresh_token" => jwt_decode(t, SECRET_KEY_A).err = "signature"
        /\ t.scope \in {"access_token", "email_token"} =>
              jwt_decode(t, SECRET_KEY_R).err = "signature"

\* under the default settings a login has just returned a refresh token,
\* which passes the signature check of the resolver
C18_Witness ==
    /\ SECRET_KEY_A = SECRET_KEY_R
    /\ last.op = "login"
    /\ last.status = HTTP_200_OK
    /\ \E e \in Confirmed(users) :
          /\ RowOf(users, e).refresh_token # None
          /\ jwt_decode(RowOf(users, e).refresh_token[1], SECRET_KEY_A).ok

\* C20: a token is determined by subject, scope, second of issue and
\* lifetime, and differs when the second of issue differs; so a refresh in
\* the second of the login that issued the presented refresh token returns
\* 200 with a refresh token (and an access token) equal to the login's, and
\* the stored refresh token stays the presented one.
C20_SameSecondRefresh ==
    /\ \A e \in Emails, t1 \in Seen, t2 \in Seen :
          /\ create_refresh_token(e, None, t1) = create_refresh_token(e, None, t2)
                <=> t1 = t2
          /\ create_access_token(e, None, t1) = create_access_token(e, None, t2)
                <=> t1 = t2
    /\ \A e \in Emails, p \in Passwords :
          LET l == login_result(users, e, p)
              r == refresh_token_result(l.users, l.refresh[1])
          IN l.status = HTTP_200_OK =>
                /\ r.status = HTTP_200_OK
                /\ r.refresh = l.refresh
                /\ r.access = l.access
                /\ r.users = l.users

\* a refresh has just succeeded in the second of the login before it: the
\* clock has not advanced
C20_Witness ==
    /\ last.op = "refresh_token"
    /\ last.status = HTTP_200_OK
    /\ Len(clock) = 1
    /\ \E e \in Confirmed(users) :
          RowOf(users, e).refresh_token = Some(create_refresh_token(e, None, now))

\* the contact with this phone number, if the table has one
WithPhone(cs, phone_number) == {c \in Rows(cs) : c.phone_number = phone_number}

\* C19: a create-contact (admitted, by a resolved identity) whose phone
\* number or email is that of an existing contact is answered 409 and
\* leaves the contacts table as it was; it adds exactly one link (caller,
\* existing contact) when the phone number is that of a contact the caller
\* is not linked to, and no link otherwise. A create-contact without a
\* collision is answered 201 and adds one row and one link to it. In every
\* state no (user, contact) pair is linked more than once, and no two
\* contacts share a phone number (or an email).
C19_CreateCollision ==
    /\ \A l \in BagToSet(links) : CopiesIn(l, links) = 1
    /\ \A c1, c2 \in Rows(contacts) :
          c1.phone_number = c2.phone_number \/ c1.email = c2.email => c1 = c2
    /\ \A i \in 1..Len(contacts) : contacts[i] # None => contacts[i][1].id = i
    /\ \A t \in Bearers, body \in ContactModel :
          LET resolved == get_current_user_result(users, t)
              caller == resolved.user[1]
              r == create_contact_result(users, contacts, links, t, TRUE, body)
              existing == WithPhone(contacts, body.phone_number)
              link(c) == [user_id |-> caller.id, contact_id |-> c.id]
          IN resolved.status = HTTP_200_OK =>
               IF \E c \in Rows(contacts) :
                     c.phone_number = body.phone_number \/ c.email = body.email
               THEN /\ r.status = HTTP_409_CONFLICT
                    /\ r.contacts = contacts
                    /\ IF existing # {}
                          /\ \A c \in existing : c.id \notin get_contact_ids(links, caller)
                       THEN \E c \in existing :
                               r.links = links (+) SetToBag({link(c)})
                       ELSE r.links = links
               ELSE /\ r.status = HTTP_201_CREATED
                    /\ Len(r.contacts) = Len(contacts) + 1
                    /\ SubSeq(r.contacts, 1, Len(contacts)) = contacts
                    /\ r.contacts[Len(r.contacts)][1].phone_number = body.phone_number
                    /\ r.links = links (+) SetToBag(
                          {[user_id |-> caller.id, contact_id |-> Len(r.contacts)]})

\* a create-contact has just been answered 409, and a contact is linked to
\* both users: the second was linked by the merge
C19_Witness ==
    /\ last.op = "create_contact"
    /\ last.status = HTTP_409_CONFLICT
    /\ \E c \in Rows(contacts) :
          \A u \in 1..Len(users) : c.id \in get_contact_ids(links, users[u])

\* the next birthday (same month and day) of birth_date falls on one of the
\* seven days from current_date through current_date + 6
BirthdayInWindow(birth_date, current_date) ==
    \E i \in 0..6 :
        LET d == PlusDays(current_date, i)
        IN d.month = birth_date.month /\ d.day = birth_date.day

\* C21: for every current date and every set of the user's contacts,
\* birthdays returns without raising, and returns exactly the contacts with
\* a birth date whose next birthday (same month and day) falls on one of the
\* seven days from today through today + 6, also when the window crosses
\* the end of the year.
C21_AsStated ==
    \A u \in 1..Len(users), current_date \in Todays :
        LET found == birthdays(contacts, links, users[u], current_date)
        IN /\ found.ok
           /\ found.result =
                {c \in get_all(contacts, links, users[u]) :
                    /\ c.birth_date # None
                    /\ BirthdayInWindow(c.birth_date[1], current_date)}

\* get_birthdays has just ended in an unhandled ValueError: the caller has
\* a contact born on a 29 February
C21_Witness ==
    /\ last.op = "get_birthdays"
    /\ last.status = HTTP_500_INTERNAL_SERVER_ERROR
    /\ \E u \in 1..Len(users) :
          \E c \in get_all(contacts, links, users[u]) :
              c.birth_date = Some(date(2000, 2, 29))

\* the access tokens the resolver's validation accepts: signed with the
\* access secret, not expired, of any subject but the empty one
ValidAccessTokens ==
    {t \in AnyToken \cup Presentable :
        /\ t.key = SECRET_KEY_A
        /\ t.exp >= now
        /\ t.scope = "access_token"
        /\ t.sub # ""}

\* C22: for a valid access token with subject e, the resolver returns the
\* cached identity, whatever the store holds and without writing the cache,
\* when the cache has an unexpired entry for e; otherwise, when the store
\* has an identity for e, it returns that identity and writes it to the
\* cache under e with an expiry 900 seconds ahead, the other entries being
\* kept; otherwise it fails with 401 and the cache is as before, without an
\* entry for e. The identity it returns has the token's subject as email.
C22_Resolver ==
    \A t \in ValidAccessTokens :
        LET e == t.sub
            r == get_current_user_result(users, t)
            stored == get_user_by_email(users, e)
        IN /\ IF e \in DOMAIN red /\ now < red[e].expires
              THEN /\ r.status = HTTP_200_OK
                   /\ r.user = Some(red[e].user)
                   /\ r.red = red
                   /\ get_current_user_result(<<>>, t) = r
              ELSE IF stored # None
              THEN /\ r.status = HTTP_200_OK
                   /\ r.user = stored
                   /\ DOMAIN r.red = DOMAIN red \cup {e}
                   /\ r.red[e] = [user |-> stored[1], expires |-> now + 900]
                   /\ \A x \in DOMAIN red \ {e} : r.red[x] = red[x]
              ELSE /\ r.status = HTTP_401_UNAUTHORIZED
                   /\ r.user = None
                   /\ r.red = red
                   /\ e \notin DOMAIN r.red
           /\ r.status = HTTP_200_OK => r.user[1].email = e

\* the resolver has just answered from its cache an identity that is no
\* longer the store's (a login stored a refresh token since), while another
\* subject has neither a cache entry nor an identity
C22_Witness ==
    /\ last.op = "get_current_user"
    /\ last.status = HTTP_200_OK
    /\ \E e \in DOMAIN red :
          /\ now < red[e].expires
          /\ get_user_by_email(users, e) # Some(red[e].user)
    /\ \E e \in Emails : e \notin DOMAIN red /\ e \notin Registered(users)

\* C23: in every state, the states between the resolver's red.set and
\* red.expire and those after a failure between the two included, every
\* entry of the cache has an expiry, and the expiry is at most 900 seconds
\* after the entry's write (so at most 900 seconds ahead of now).
C23_AsStated ==
    \A e \in DOMAIN red :
        /\ red[e].expires # PERSIST
        /\ red[e].expires <= now + 900

\* every worker is idle, a resolution has failed between red.set and
\* red.expire, and more than 900 seconds later the entry it wrote is there
C23_Witness ==
    /\ \A w \in Workers : tasks[w].pc = "idle"
    /\ now > 900
    /\ \E e \in DOMAIN red : red[e].expires = PERSIST /\ red_get(e) # None

\* C24: staleness of the resolver is bounded by the TTL: an identity a
\* resolution returns equals the store's value for that email at some
\* moment at most 900 seconds before. In these runs the stored refresh
\* token of an identity is written by login only, with the instant of the
\* login as its iat: when the stored token was issued more than 900
\* seconds ago, every value the store had in the last 900 seconds carries
\* it, and so does the identity just returned.
C24_AsStated ==
    \A w \in Workers :
        tasks[w].out # None /\ tasks[w].at = now =>
            LET returned == tasks[w].out[1]
                stored == RowOf(users, returned.email)
            IN stored.refresh_token # None
                 /\ stored.refresh_token[1].iat < now - 900
                 => returned.refresh_token = stored.refresh_token

\* a resolution has just returned, from an entry without expiry, an
\* identity the store has not held for more than 900 seconds
C24_Witness ==
    \E w \in Workers :
        /\ tasks[w].out # None
        /\ tasks[w].at = now
        /\ last.op = "get_current_user"
        /\ tasks[w].out[1].email \in DOMAIN red
        /\ red[tasks[w].out[1].email].expires = PERSIST
        /\ LET stored == RowOf(users, tasks[w].out[1].email)
           IN /\ stored.refresh_token # None
              /\ stored.refresh_token[1].iat < now - 900
              /\ tasks[w].out[1].refresh_token = None

\* the workers that have read the store after a miss for this email and
\* have their cache write, or its expiry, ahead
Writing(email) ==
    {w \in Workers : tasks[w].pc \in {"set", "expire"} /\ tasks[w].email = email}

\* C25 as stated: two concurrent resolutions that both missed the cache for
\* the same email write equal values, also when a mutation of the identity
\* (here login's refresh-token update, or reset-password) came between
\* their reads of the store.
C25_AsStated ==
    \A e \in Emails :
        \A v, w \in Writing(e) : tasks[v].user = tasks[w].user

\* C25: the values two concurrent resolutions that both missed the cache
\* for the same email write agree in id, email and role, whatever came
\* between their reads of the store; each is the store's row as it was at
\* the worker's read, so they are equal when no mutation came between; and
\* every cache entry is under the email of its identity and agrees with the
\* store in id and role, whichever write came last.
C25_EqualIdentity ==
    /\ \A e \in Emails :
          \A v, w \in Writing(e) :
              /\ tasks[v].user[1].id = tasks[w].user[1].id
              /\ tasks[v].user[1].email = e
              /\ tasks[v].user[1].roles = tasks[w].user[1].roles
    /\ \A e \in DOMAIN red :
          /\ red[e].user.email = e
          /\ red[e].user.id = RowOf(users, e).id
          /\ red[e].user.roles = RowOf(users, e).roles

\* two resolutions have both missed the cache for the same email and read
\* the store, a login in between; one has written its value, which is not
\* the value the other is about to write
C25_Witness ==
    \E v, w \in Workers :
        /\ tasks[v].pc = "expire"
        /\ tasks[w].pc = "set"
        /\ tasks[v].email = tasks[w].email
        /\ tasks[v].user # tasks[w].user
        /\ red[tasks[v].email].user = tasks[v].user[1]

\* the clients whose commit wrote the stored refresh token
Writers == {c \in Clients : tasks[c].wrote > 0}

\* C26: for every interleaving of concurrent refresh requests for the same
\* identity, once all have completed, the stored refresh token is the one
\* the login stored when no request has written it, and otherwise is what
\* the request whose write was last wrote: null when that request was
\* refused and cleared it, the refresh token that request returned when it
\* succeeded. It is never a value no request returned.
C26_LastWriteWins ==
    (\A c \in Clients : tasks[c].pc # "commit") =>
        /\ IF Writers = {}
           THEN users[1].refresh_token = Some(create_refresh_token("a@x.com", None, 0))
           ELSE \E c \in Writers :
                   /\ tasks[c].wrote = Writes
                   /\ users[1].refresh_token = tasks[c].out
        /\ \/ users[1].refresh_token = None
           \/ users[1].refresh_token = Some(create_refresh_token("a@x.com", None, 0))
           \/ \E c \in Clients :
                 tasks[c].status = HTTP_200_OK /\ tasks[c].out = users[1].refresh_token

\* three refresh requests have completed: one was refused and cleared the
\* stored token, one that had read the stored token before the clearing
\* succeeded and wrote after it, and the stored token is the one it returned
C26_Witness ==
    /\ \A c \in Clients : tasks[c].pc = "done" /\ tasks[c].op = "refresh_token"
    /\ \E a, b \in Clients :
          /\ tasks[a].status = HTTP_401_UNAUTHORIZED
          /\ tasks[a].wrote > 0
          /\ tasks[b].status = HTTP_200_OK
          /\ tasks[b].wrote > tasks[a].wrote
          /\ users[1].refresh_token = tasks[b].out
          /\ users[1].refresh_token # None

\* the clients whose refresh request succeeded
Redeemed == {c \in Clients : tasks[c].op = "refresh_token" /\ tasks[c].status = HTTP_200_OK}

\* C27 as stated: each issued refresh token is redeemed successfully at
\* most once, in sequential and in concurrent executions.
C27_AsStated ==
    \A a, b \in Redeemed : tasks[a].token = tasks[b].token => a = b

\* C27: a refresh with a well-formed token of an existing identity succeeds
\* when the token is the stored one and otherwise is answered 401 and
\* leaves NULL stored; a successful refresh presented the token its session
\* read as stored and returns a token issued at the instant of the refresh,
\* which differs from the presented one when that was issued in an earlier
\* second; and a token redeemed in a later second than its issue is not the
\* stored token in any later state, so every later refresh with it is
\* answered 401.
C27_Replay ==
    /\ \A t \in RefreshBearers :
          LET decoded == decode_refresh_token(t)
              r == refresh_token_result(users, t)
          IN decoded.ok /\ get_user_by_email(users, decoded.email) # None =>
               IF RowOf(users, decoded.email).refresh_token = Some(t)
               THEN r.status = HTTP_200_OK
               ELSE /\ r.status = HTTP_401_UNAUTHORIZED
                    /\ RowOf(r.users, decoded.email).refresh_token = None
    /\ \A c \in Redeemed :
          /\ tasks[c].user[1].refresh_token = tasks[c].token
          /\ tasks[c].out[1].iat = tasks[c].at
          /\ tasks[c].at > tasks[c].token[1].iat =>
                /\ tasks[c].out # tasks[c].token
                /\ users[1].refresh_token # tasks[c].token
                /\ refresh_token_result(users, tasks[c].token[1]).status
                     = HTTP_401_UNAUTHORIZED

\* two concurrent refresh requests have both redeemed the same token, a
\* second after its issue
C27_Witness ==
    \E a, b \in Redeemed :
        /\ a # b
        /\ tasks[a].token = tasks[b].token
        /\ tasks[a].at > tasks[a].token[1].iat
        /\ users[1].refresh_token = tasks[a].out

\* the clients whose signup for this email has been answered
SignedUp(email) ==
    {c \in Clients : tasks[c].op = "signup" /\ tasks[c].pc = "done" /\ tasks[c].email = email}

\* C29: for every interleaving of concurrent signups with the same email,
\* once they are answered exactly one identity has the email, at most one
\* request was answered 201 and every other one 409 Conflict.
C29_AsStated ==
    \A e \in Emails :
        SignedUp(e) # {} =>
            /\ Cardinality({i \in 1..Len(users) : users[i].email = e}) = 1
            /\ \A a, b \in SignedUp(e) :
                  tasks[a].status = HTTP_201_CREATED /\ tasks[b].status = HTTP_201_CREATED
                  => a = b
            /\ \A c \in SignedUp(e) :
                  tasks[c].status \in {HTTP_201_CREATED, HTTP_409_CONFLICT}

\* two concurrent signups with the same email have been answered, one 201
\* and the other 400, and one identity has the email
C29_Witness ==
    \E e \in Emails :
        /\ \E a, b \in SignedUp(e) :
              /\ tasks[a].status = HTTP_201_CREATED
              /\ tasks[b].status = HTTP_400_BAD_REQUEST
        /\ Cardinality({i \in 1..Len(users) : users[i].email = e}) = 1

\* C28: a refresh request refused at the validation of its token (bad
\* signature, expired, scope other than refresh) leaves the users table as
\* it was, and so does one whose subject has no identity; a well-formed
\* token that differs from the stored token of its subject is answered 401
\* and sets that identity's stored token to NULL; whatever the token, the
\* request changes no row but the subject's and no column but
\* refresh_token, and a stored token is cleared only by such a mismatch.
C28_RefreshFrame ==
    \A t \in AnyToken \cup Presentable :
        LET decoded == decode_refresh_token(t)
            r == refresh_token_result(users, t)
        IN /\ Len(r.users) = Len(users)
           /\ t.key # SECRET_KEY_R \/ t.exp < now \/ t.scope # "refresh_token"
                => ~decoded.ok /\ r.users = users /\ r.status = HTTP_401_UNAUTHORIZED
           /\ decoded.ok /\ decoded.email \notin Registered(users) => r.users = users
           /\ \A i \in 1..Len(users) :
                 /\ [r.users[i] EXCEPT !.refresh_token = None]
                      = [users[i] EXCEPT !.refresh_token = None]
                 /\ r.users[i] # users[i] => decoded.ok /\ users[i].email = t.sub
                 /\ decoded.ok /\ users[i].email = t.sub
                      /\ users[i].refresh_token # Some(t)
                      => /\ r.status = HTTP_401_UNAUTHORIZED
                         /\ r.users[i].refresh_token = None
                 /\ r.users[i].refresh_token = None /\ users[i].refresh_token # None
                      => /\ decoded.ok
                         /\ users[i].email = t.sub
                         /\ users[i].refresh_token # Some(t)

\* a refresh has just been refused for a token that was not the stored one:
\* its subject's stored token is NULL and the other identity's is still
\* stored
C28_Witness ==
    /\ last.op = "refresh_token"
    /\ last.status = HTTP_401_UNAUTHORIZED
    /\ last.detail = "Invalid refresh token"
    /\ \E i, j \in 1..Len(users) :
          /\ users[i].refresh_token = None
          /\ users[j].refresh_token # None

\* the access token a login of this user returns now
TokenOf(user) == create_access_token(user.email, None, now)

\* the responses to the requests of user that write the tables (admitted by
\* the rate limiter): create, update and remove
WritesBy(user) ==
    {create_contact_result(users, contacts, links, TokenOf(user), TRUE, body) :
        body \in ContactModel}
    \cup {update_contact_result(users, contacts, links, TokenOf(user), id, body) :
             id \in ContactIds, body \in ContactModel}
    \cup {delete_contact_result(users, contacts, links, TokenOf(user), id) :
             id \in ContactIds}

====
